---------------------------- MODULE Spec2Model ----------------------------
(***************************************************************************)
(* A model of the z3y plugin framework: the versioned interface query of   *)
(* PluginImpl, the registry / resolver / loader of PluginManager and its   *)
(* event bus.                                                              *)
(***************************************************************************)
EXTENDS Integers, Sequences, FiniteSets, TLC

(***************************************************************************)
(* Bounds of the model.                                                    *)
(***************************************************************************)
NumClasses == 3
NumLibs == 2
MaxInstances == 2
MaxRefs == 2
MaxMapCount == 1
MaxVer == 2
NumSubscribers == 2
NumEvents == 1
MaxSubs == 2
MaxQueue == 2
MaxCreates == 3
MaxHandles == 3

(***************************************************************************)
(* Identity model.  ClassId 0 is "none".                                   *)
(***************************************************************************)
NoClsid == "0"
kEventBus == "kEventBus"
kPluginQuery == "kPluginQuery"
kPluginManager == "PluginManager.kClsid"
CoreClsids == {kEventBus, kPluginQuery, kPluginManager}

IComponent_kIid == "IComponent"
IEventBus_kIid == "IEventBus"
IPluginQuery_kIid == "IPluginQuery"
ISimple_kIid == "ISimple"
ILogger_kIid == "ILogger"
UnknownIid == "IUnknown"
InterfaceIds == {IComponent_kIid, IEventBus_kIid, IPluginQuery_kIid,
                 ISimple_kIid, ILogger_kIid}

InterfaceDetails(iid, major, minor) == [iid |-> iid, major |-> major, minor |-> minor]

\* The implementation classes a library may hold, in the order the bound
\* NumClasses admits them.
ClassCatalog == << "SimpleImplA", "Combo", "LoggerService", "SimpleImplB" >>
PluginClsids == { ClassCatalog[i] : i \in 1..NumClasses }
ClassIds == CoreClsids \cup PluginClsids

\* The Interfaces... pack of PluginImpl<ImplClass, Interfaces...>, with the
\* versions the class was built against.
InterfacesOf(c) ==
    CASE c \in CoreClsids  -> << InterfaceDetails(IEventBus_kIid, 1, 0),
                                 InterfaceDetails(IPluginQuery_kIid, 1, 0) >>
      [] c = "SimpleImplA"   -> << InterfaceDetails(ISimple_kIid, 1, 0) >>
      [] c = "SimpleImplB"   -> << InterfaceDetails(ISimple_kIid, 1, 0) >>
      [] c = "LoggerService" -> << InterfaceDetails(ILogger_kIid, 1, 0) >>
      [] c = "Combo"         -> << InterfaceDetails(ILogger_kIid, 1, 1),
                                   InterfaceDetails(ISimple_kIid, 1, 0) >>
      [] OTHER -> << >>

IComponentDetails == InterfaceDetails(IComponent_kIid, 1, 0)

\* Whether the class is written as a service (registered with
\* RegisterService) or as a component (RegisterComponent).
IsService(c) == c \in CoreClsids \cup {"Combo", "LoggerService"}

\* PluginImpl::GetInterfaceDetails: IComponent first, then the pack.
GetInterfaceDetails(c) == << IComponentDetails >> \o InterfacesOf(c)

(***************************************************************************)
(* PluginImpl::QueryInterfaceRaw and QueryRecursive.  The result is the    *)
(* pair (pointer, out_result); the pointer is "null" or the name of the    *)
(* interface sub-object.                                                   *)
(***************************************************************************)
kSuccess == "kSuccess"
kErrorAliasNotFound == "kErrorAliasNotFound"
kErrorClsidNotFound == "kErrorClsidNotFound"
kErrorNotAService == "kErrorNotAService"
kErrorNotAComponent == "kErrorNotAComponent"
kErrorFactoryFailed == "kErrorFactoryFailed"
kErrorInterfaceNotImpl == "kErrorInterfaceNotImpl"
kErrorVersionMajorMismatch == "kErrorVersionMajorMismatch"
kErrorVersionMinorTooLow == "kErrorVersionMinorTooLow"
kErrorInternal == "kErrorInternal"
InstanceError == {kSuccess, kErrorAliasNotFound, kErrorClsidNotFound,
                  kErrorNotAService, kErrorNotAComponent, kErrorFactoryFailed,
                  kErrorInterfaceNotImpl, kErrorVersionMajorMismatch,
                  kErrorVersionMinorTooLow, kErrorInternal}

QueryResult(ptr, err) == [ptr |-> ptr, err |-> err]

\* The version check of one matched interface.
VersionCheckSwapped(d, host_major, host_minor) ==
    IF d.minor < host_minor THEN QueryResult("null", kErrorVersionMinorTooLow)
    ELSE IF d.major # host_major THEN QueryResult("null", kErrorVersionMajorMismatch)
    ELSE QueryResult(d.iid, kSuccess)

VersionCheck(d, host_major, host_minor) ==
    IF d.major # host_major THEN QueryResult("null", kErrorVersionMajorMismatch)
    ELSE IF d.minor < host_minor THEN QueryResult("null", kErrorVersionMinorTooLow)
    ELSE QueryResult(d.iid, kSuccess)

RECURSIVE QueryRecursive(_, _, _, _)
QueryRecursive(pack, iid, host_major, host_minor) ==
    IF pack = << >> THEN QueryResult("null", kErrorInterfaceNotImpl)
    ELSE IF iid = Head(pack).iid THEN VersionCheck(Head(pack), host_major, host_minor)
    ELSE QueryRecursive(Tail(pack), iid, host_major, host_minor)

QueryInterfaceRaw(c, iid, major, minor) ==
    IF iid = IComponent_kIid THEN VersionCheck(IComponentDetails, major, minor)
    ELSE QueryRecursive(InterfacesOf(c), iid, major, minor)


(***************************************************************************)
(* State.                                                                  *)
(***************************************************************************)
VARIABLES
    \* PluginManager registry members (plugin_manager.h)
    components_, singletons_, alias_map_, default_map_, loaded_libs_,
    current_loading_plugin_path_, current_added_components_, running_,
    \* LoadPluginInternal in flight: its position and locals
    load_pc, path_str, added_components_this_session, load_bus,
    \* the platform's view of the libraries and the component objects alive
    map_count, objects,
    \* outcome of the last operation, and the registry as it was when the
    \* load in flight began
    last, load_pre,
    \* the interface query under test
    q_cls, q_iid, q_major, q_minor, q_result,
    \* event bus members (plugin_manager.h) and the objects that still have an
    \* owner, which is what a weak_ptr observes
    global_subscribers_, sender_subscribers_, global_sub_lookup_,
    sender_sub_lookup_, event_queue_, gc_queue_, live, sub_count,
    \* the publisher inside FireGlobalImpl / FireToSenderImpl: its position
    \* and locals
    fire_pc, direct_calls, queued_calls,
    \* what the fire in flight took as its direct snapshot, the callbacks it
    \* has run and the ones that found their subscriber gone
    fire_published, fire_log, fire_skipped,
    \* the subscribers whose last bus call was an Unsubscribe that returned
    unsubscribed,
    \* the worker inside EventLoop: its position, the callbacks of
    \* task_to_run it has yet to run, the message its catch clause took, and
    \* the locals of the FireGlobalImpl it runs for AsyncExceptionEvent
    worker_pc, task_to_run, worker_what, worker_direct_calls, worker_queued_calls,
    \* the task the worker took last and the owners alive when it took it, the
    \* callbacks the worker has run since, and the AsyncExceptionEvent
    \* messages it has published since
    worker_task, worker_live, worker_log, worker_fired,
    \* the number of subscriptions made before the last UnloadAllPlugins
    unload_mark,
    \* the static s_ActiveInstance, the Create calls in flight (position and
    \* the Manager each has constructed) and the Managers constructed so far
    s_ActiveInstance, create_pc, create_mgr, made_count,
    \* shared_ptr as the handles see it: the control blocks (object and use
    \* count), the PluginPtr values held (control block and interface), and
    \* how often each object's destructor has run
    blocks, handles, destroyed,
    \* the mutexes: the thread that owns each, and for each thread the lock
    \* and call steps the operation it is in has yet to take
    lock_owner, lock_script

regVars == << components_, singletons_, alias_map_, default_map_, loaded_libs_,
              current_loading_plugin_path_, current_added_components_, running_,
              load_pc, path_str, added_components_this_session, load_bus,
              map_count, objects, last, load_pre >>
qVars == << q_cls, q_iid, q_major, q_minor, q_result >>
busVars == << global_subscribers_, sender_subscribers_, global_sub_lookup_,
              sender_sub_lookup_, event_queue_, gc_queue_, live, sub_count,
              fire_pc, direct_calls, queued_calls,
              fire_published, fire_log, fire_skipped, unsubscribed,
              worker_pc, task_to_run, worker_what, worker_direct_calls,
              worker_queued_calls, worker_task, worker_live, worker_log,
              worker_fired, unload_mark, s_ActiveInstance, create_pc,
              create_mgr, made_count, blocks, handles, destroyed,
              lock_owner, lock_script >>
workerVars == << worker_pc, task_to_run, worker_what, worker_direct_calls,
                 worker_queued_calls, worker_task, worker_live, worker_log,
                 worker_fired >>
castVars == << blocks, handles, destroyed >>
lockVars == << lock_owner, lock_script >>
lifeVars == << unload_mark, s_ActiveInstance, create_pc, create_mgr, made_count,
               castVars, lockVars >>
vars == << regVars, qVars, busVars >>

(***************************************************************************)
(* Finite maps (std::map / std::unordered_map).                            *)
(***************************************************************************)
EmptyMap == [x \in {} |-> x]
Put(f, k, v) == [x \in DOMAIN f \cup {k} |-> IF x = k THEN v ELSE f[x]]
Erase(f, k) == [x \in DOMAIN f \ {k} |-> f[x]]

(***************************************************************************)
(* Interface query under test: inputs from bounded sets, one call.         *)
(***************************************************************************)
AllCatalogClasses == { ClassCatalog[i] : i \in 1..Len(ClassCatalog) }
QueryClasses == AllCatalogClasses \cup {kPluginManager}
QueryIids == InterfaceIds \cup {UnknownIid}
Versions == 0..MaxVer
NoResult == QueryResult("none", "none")

QInit ==
    /\ q_cls \in QueryClasses
    /\ q_iid \in QueryIids
    /\ q_major \in Versions
    /\ q_minor \in Versions
    /\ q_result = NoResult

\* No query is pending: the state of the query variables while the registry
\* specifications run.
QIdle ==
    /\ q_cls = "SimpleImplA"
    /\ q_iid = ISimple_kIid
    /\ q_major = 1
    /\ q_minor = 0
    /\ q_result = NoResult

QueryCall ==
    /\ q_result = NoResult
    /\ q_result' = QueryInterfaceRaw(q_cls, q_iid, q_major, q_minor)
    /\ UNCHANGED << q_cls, q_iid, q_major, q_minor >>
    /\ UNCHANGED << regVars, busVars >>

QueryReset ==
    /\ q_result # NoResult
    /\ q_result' = NoResult
    /\ q_cls' \in QueryClasses
    /\ q_iid' \in QueryIids
    /\ q_major' \in Versions
    /\ q_minor' \in Versions
    /\ UNCHANGED << regVars, busVars >>

(***************************************************************************)
(* Registry: RegisterComponent, RollbackRegistrations, GetClsidFromAlias.  *)
(***************************************************************************)
LibCatalog == << "plugins/a.so", "plugins/b.so", "plugins/c.so" >>
Libs == { LibCatalog[i] : i \in 1..NumLibs }
NoPath == ""
NoAlias == ""

ComponentInfo(single, alias, path, is_default) ==
    [is_singleton |-> single, alias |-> alias, source_plugin_path |-> path,
     is_default_registration |-> is_default]

Event(id, arg) == [id |-> id, arg |-> arg]

\* The registry members one RegisterComponent call works on.
Registry(cs, am, dm, added) ==
    [components |-> cs, alias_map |-> am, default_map |-> dm, added |-> added]

\* plugin_manager.cpp:309, the duplicate test.
AlreadyRegisteredNever(cs, clsid) == FALSE

AlreadyRegistered(cs, clsid) == clsid \in DOMAIN cs

\* plugin_manager.cpp:335-336, the conflict test of one interface.
HasDefaultNever(dm, iid) == FALSE

HasDefault(dm, iid) == iid \in DOMAIN dm

\* plugin_manager.cpp:326-354: the loop over implemented_interfaces.  It
\* writes default_map_ as it goes and stops at the first interface that
\* already has a default.
RECURSIVE DefaultLoop(_, _, _)
DefaultLoop(dm, ifaces, clsid) ==
    IF ifaces = << >> THEN [default_map |-> dm, conflict |-> FALSE]
    ELSE IF Head(ifaces).iid = IComponent_kIid THEN DefaultLoop(dm, Tail(ifaces), clsid)
    ELSE IF HasDefault(dm, Head(ifaces).iid) THEN [default_map |-> dm, conflict |-> TRUE]
    ELSE DefaultLoop(Put(dm, Head(ifaces).iid, clsid), Tail(ifaces), clsid)

RegisterResult(R, err, fired) == [R |-> R, err |-> err, fired |-> fired]

\* RegisterComponent on registry R; ptr is current_added_components_ (TRUE
\* when it points at a load's list), path is current_loading_plugin_path_,
\* bus_ok says whether running_ and GetActiveInstance() give a bus.
RegisterComponent(R, ptr, path, bus_ok, clsid, is_singleton, alias, implemented_interfaces, is_default) ==
    IF AlreadyRegistered(R.components, clsid)
    THEN RegisterResult(R, "duplicate_clsid", << >>)
    ELSE LET loop == IF is_default
                     THEN DefaultLoop(R.default_map, implemented_interfaces, clsid)
                     ELSE [default_map |-> R.default_map, conflict |-> FALSE]
         IN IF loop.conflict
            THEN RegisterResult([R EXCEPT !.default_map = loop.default_map],
                                "default_conflict", << >>)
            ELSE RegisterResult(
                   Registry(Put(R.components, clsid,
                                ComponentInfo(is_singleton, alias, path, is_default)),
                            IF alias # NoAlias THEN Put(R.alias_map, alias, clsid)
                                               ELSE R.alias_map,
                            loop.default_map,
                            IF ptr THEN Append(R.added, clsid) ELSE R.added),
                   "ok",
                   IF bus_ok THEN << Event("ComponentRegisterEvent", clsid) >>
                             ELSE << >>)

\* RollbackRegistrations: one clsid of the list.
RollbackOne(S, clsid) ==
    IF clsid \notin DOMAIN S.components THEN S
    ELSE LET info == S.components[clsid]
             am == IF info.alias # NoAlias /\ info.alias \in DOMAIN S.alias_map
                   THEN Erase(S.alias_map, info.alias) ELSE S.alias_map
             dm == IF info.is_default_registration
                   THEN [i \in { j \in DOMAIN S.default_map :
                                   ~ (S.default_map[j] = clsid
                                      /\ \E k \in 1..Len(GetInterfaceDetails(clsid)) :
                                            GetInterfaceDetails(clsid)[k].iid = j) }
                           |-> S.default_map[i]]
                   ELSE S.default_map
         IN [components |-> Erase(S.components, clsid),
             alias_map |-> am,
             default_map |-> dm,
             singletons |-> IF clsid \in DOMAIN S.singletons
                            THEN Erase(S.singletons, clsid) ELSE S.singletons]

RECURSIVE RollbackRegistrations(_, _)
RollbackRegistrations(S, clsid_list) ==
    IF clsid_list = << >> THEN S
    ELSE RollbackRegistrations(RollbackOne(S, Head(clsid_list)), Tail(clsid_list))

\* plugin_manager.cpp:469-477 returns 0 for an unknown alias; the variant
\* hands the unknown alias on as if it were a ClassId.
GetClsidFromAliasVerbatim(am, alias) ==
    IF alias \in DOMAIN am THEN am[alias] ELSE alias

GetClsidFromAlias(am, alias) ==
    IF alias \in DOMAIN am THEN am[alias] ELSE NoClsid

(***************************************************************************)
(* Resolver: PluginCast, GetService, CreateInstance.                       *)
(* A component object is (class, number of handles held outside the        *)
(* Manager); object 0 is the Manager itself, kept alive by the active-     *)
(* instance slot.  A weak reference resolves while the count is positive.  *)
(***************************************************************************)
ManagerInst == 0
NoInst == -1
Object(cls, refs) == [cls |-> cls, refs |-> refs]
ClassOfInst(objs, i) == IF i = ManagerInst THEN kPluginManager ELSE objs[i].cls
AliveForever(objs, i) == i = ManagerInst \/ i \in 1..Len(objs)

Alive(objs, i) == i = ManagerInst \/ (i \in 1..Len(objs) /\ objs[i].refs > 0)
AddRef(objs, i) ==
    IF i = ManagerInst THEN objs ELSE [objs EXCEPT ![i].refs = @ + 1]

\* The interface types T a caller may ask for: (T::kIid, T::kVersionMajor,
\* T::kVersionMinor) as the caller was built.
ReqTypes == { InterfaceDetails(ISimple_kIid, 1, 0),
              InterfaceDetails(ISimple_kIid, 1, 1),
              InterfaceDetails(ILogger_kIid, 2, 0),
              InterfaceDetails(IEventBus_kIid, 1, 0) }
NoType == InterfaceDetails("none", 0, 0)

\* PluginCast<T>(component, out_result) on a non-empty handle to an object
\* of class cls.
PluginCast(cls, T) == QueryInterfaceRaw(cls, T.iid, T.major, T.minor)

\* A factory call: the core factories hand out the active Manager, a
\* library's factory makes a new object, or returns empty when made is FALSE.
Factory(objs, clsid, made) ==
    IF clsid \in CoreClsids THEN [objects |-> objs, inst |-> ManagerInst]
    ELSE IF made THEN [objects |-> Append(objs, Object(clsid, 0)),
                       inst |-> Len(objs) + 1]
    ELSE [objects |-> objs, inst |-> NoInst]

ResolveResult(st, objs, err, inst, calls) ==
    [singletons |-> st, objects |-> objs, err |-> err, inst |-> inst, calls |-> calls]

\* plugin_manager.h:504, the cache write of a new singleton.
CacheNewSingletonAlways(st, clsid, inst, cast_err) == Put(st, clsid, inst)

CacheNewSingleton(st, clsid, inst, cast_err) ==
    IF cast_err = kSuccess THEN Put(st, clsid, inst) ELSE st

\* GetService<T>(clsid).
GetService(cs, st, objs, clsid, T, made) ==
    IF clsid \notin DOMAIN cs
    THEN ResolveResult(st, objs, kErrorClsidNotFound, NoInst, 0)
    ELSE IF ~ cs[clsid].is_singleton
    THEN ResolveResult(st, objs, kErrorNotAService, NoInst, 0)
    ELSE IF clsid \in DOMAIN st /\ Alive(objs, st[clsid])
    THEN LET cast == PluginCast(ClassOfInst(objs, st[clsid]), T)
         IN IF cast.err # kSuccess
            THEN ResolveResult(st, objs, cast.err, NoInst, 0)
            ELSE ResolveResult(st, AddRef(objs, st[clsid]), kSuccess, st[clsid], 0)
    ELSE LET f == Factory(objs, clsid, made)
         IN IF f.inst = NoInst
            THEN ResolveResult(st, f.objects, kErrorFactoryFailed, NoInst, 1)
            ELSE LET cast == PluginCast(ClassOfInst(f.objects, f.inst), T)
                 IN IF cast.err # kSuccess
                    THEN ResolveResult(CacheNewSingleton(st, clsid, f.inst, cast.err),
                                       f.objects, cast.err, NoInst, 1)
                    ELSE ResolveResult(CacheNewSingleton(st, clsid, f.inst, cast.err),
                                       AddRef(f.objects, f.inst), kSuccess, f.inst, 1)

\* CreateInstance<T>(clsid).
CreateInstance(cs, st, objs, clsid, T, made) ==
    IF clsid \notin DOMAIN cs
    THEN ResolveResult(st, objs, kErrorClsidNotFound, NoInst, 0)
    ELSE IF cs[clsid].is_singleton
    THEN ResolveResult(st, objs, kErrorNotAComponent, NoInst, 0)
    ELSE LET f == Factory(objs, clsid, made)
         IN IF f.inst = NoInst
            THEN ResolveResult(st, f.objects, kErrorFactoryFailed, NoInst, 1)
            ELSE LET cast == PluginCast(ClassOfInst(f.objects, f.inst), T)
                 IN IF cast.err # kSuccess
                    THEN ResolveResult(st, f.objects, cast.err, NoInst, 1)
                    ELSE ResolveResult(st, AddRef(f.objects, f.inst), kSuccess, f.inst, 1)

\* GetService<T>(alias) and CreateInstance<T>(alias).
GetServiceByAlias(cs, st, am, objs, alias, T, made) ==
    LET clsid == GetClsidFromAlias(am, alias)
    IN IF clsid = NoClsid
       THEN ResolveResult(st, objs, kErrorAliasNotFound, NoInst, 0)
       ELSE GetService(cs, st, objs, clsid, T, made)

CreateInstanceByAlias(cs, st, am, objs, alias, T, made) ==
    LET clsid == GetClsidFromAlias(am, alias)
    IN IF clsid = NoClsid
       THEN ResolveResult(st, objs, kErrorAliasNotFound, NoInst, 0)
       ELSE CreateInstance(cs, st, objs, clsid, T, made)

(***************************************************************************)
(* The state after PluginManager::Create: the three core registrations     *)
(* and the first GetService<IEventBus>(kEventBus).                         *)
(***************************************************************************)
EmptyRegistry == Registry(EmptyMap, EmptyMap, EmptyMap, << >>)
IEventBusType == InterfaceDetails(IEventBus_kIid, 1, 0)

RegisterCoreServices(R, bus_ok) ==
    LET r1 == RegisterComponent(R, FALSE, NoPath, bus_ok, kEventBus, TRUE,
                  "z3y.core.eventbus", GetInterfaceDetails(kEventBus), TRUE).R
        r2 == RegisterComponent(r1, FALSE, NoPath, bus_ok, kPluginQuery, TRUE,
                  "z3y.core.pluginquery", GetInterfaceDetails(kPluginQuery), FALSE).R
    IN RegisterComponent(r2, FALSE, NoPath, bus_ok, kPluginManager, TRUE,
                  "z3y.core.manager", GetInterfaceDetails(kPluginManager), FALSE).R

Created == RegisterCoreServices(EmptyRegistry, TRUE)
CreatedSingletons ==
    GetService(Created.components, EmptyMap, << >>, kEventBus, IEventBusType, TRUE).singletons

Outcome(op, key, T, err, inst, calls, emitted) ==
    [op |-> op, key |-> key, T |-> T, err |-> err, inst |-> inst,
     calls |-> calls, emitted |-> emitted]
NoSnapshot == [taken |-> FALSE]
Snapshot ==
    [taken |-> TRUE, components |-> components_, singletons |-> singletons_,
     alias_map |-> alias_map_, default_map |-> default_map_,
     loaded_libs |-> loaded_libs_, map_count |-> map_count]

RegInit ==
    /\ components_ = Created.components
    /\ alias_map_ = Created.alias_map
    /\ default_map_ = Created.default_map
    /\ singletons_ = CreatedSingletons
    /\ loaded_libs_ = {}
    /\ current_loading_plugin_path_ = NoPath
    /\ current_added_components_ = FALSE
    /\ running_ = TRUE
    /\ load_pc = "idle"
    /\ path_str = NoPath
    /\ added_components_this_session = << >>
    /\ load_bus = FALSE
    /\ map_count = [p \in Libs |-> 0]
    /\ objects = << >>
    /\ last = Outcome("Create", NoClsid, NoType, "ok", NoInst, 0, << >>)
    /\ load_pre = NoSnapshot

(***************************************************************************)
(* Operations of the registry and the resolver.                            *)
(***************************************************************************)
WithinBounds(objs) ==
    /\ Len(objs) <= MaxInstances
    /\ \A i \in 1..Len(objs) : objs[i].refs <= MaxRefs

\* IPluginRegistry::RegisterComponent, called by the host (no load in
\* flight) or by the init function of the library being loaded; an error
\* raised inside init leaves init.
RegisterComponentCall(clsid, is_singleton, alias, is_default) ==
    /\ load_pc \in {"idle", "init"}
    /\ LET r == RegisterComponent(
                  Registry(components_, alias_map_, default_map_,
                           added_components_this_session),
                  current_added_components_, current_loading_plugin_path_,
                  running_, clsid, is_singleton, alias,
                  GetInterfaceDetails(clsid), is_default)
       IN /\ components_' = r.R.components
          /\ alias_map_' = r.R.alias_map
          /\ default_map_' = r.R.default_map
          /\ added_components_this_session' = r.R.added
          /\ load_pc' = IF load_pc = "init" /\ r.err # "ok" THEN "threw" ELSE load_pc
          /\ last' = Outcome("RegisterComponent", clsid, NoType, r.err, NoInst, 0, r.fired)
    /\ UNCHANGED << singletons_, loaded_libs_, current_loading_plugin_path_,
                    current_added_components_, running_, path_str, load_bus,
                    map_count, objects, load_pre >>
    /\ UNCHANGED << qVars, busVars >>

\* While a library's init runs, the resolver is asked only for what that
\* init has registered.
MayResolve(clsid) ==
    load_pc = "idle"
    \/ (load_pc = "init"
        /\ \E k \in 1..Len(added_components_this_session) :
              added_components_this_session[k] = clsid)

Resolved(op, key, T, r) ==
    /\ WithinBounds(r.objects)
    /\ singletons_' = r.singletons
    /\ objects' = r.objects
    /\ last' = Outcome(op, key, T, r.err, r.inst, r.calls, << >>)
    /\ UNCHANGED << components_, alias_map_, default_map_, loaded_libs_,
                    current_loading_plugin_path_, current_added_components_,
                    running_, load_pc, path_str, added_components_this_session,
                    load_bus, map_count, load_pre >>
    /\ UNCHANGED << qVars, busVars >>

GetServiceCall(clsid, T, made) ==
    /\ MayResolve(clsid)
    /\ Resolved("GetService", clsid, T,
                GetService(components_, singletons_, objects, clsid, T, made))

\* The object a CreateInstance call makes belongs to its caller alone and is
\* not followed further.
Created_(op, key, T, r) ==
    /\ last' = Outcome(op, key, T, r.err, r.inst, r.calls, << >>)
    /\ UNCHANGED << components_, singletons_, alias_map_, default_map_, loaded_libs_,
                    current_loading_plugin_path_, current_added_components_,
                    running_, load_pc, path_str, added_components_this_session,
                    load_bus, map_count, objects, load_pre >>
    /\ UNCHANGED << qVars, busVars >>

CreateInstanceCall(clsid, T, made) ==
    /\ MayResolve(clsid)
    /\ Created_("CreateInstance", clsid, T,
                CreateInstance(components_, singletons_, objects, clsid, T, made))

GetServiceAliasCall(alias, T, made) ==
    /\ load_pc = "idle"
    /\ Resolved("GetService", alias, T,
                GetServiceByAlias(components_, singletons_, alias_map_, objects,
                                  alias, T, made))

CreateInstanceAliasCall(alias, T, made) ==
    /\ load_pc = "idle"
    /\ Created_("CreateInstance", alias, T,
                CreateInstanceByAlias(components_, singletons_, alias_map_, objects,
                                      alias, T, made))

\* The holder of a handle to object i lets it go.
ReleaseHandle(i) ==
    /\ load_pc \in {"idle", "init"}
    /\ i \in 1..Len(objects)
    /\ objects[i].refs > 0
    /\ objects' = [objects EXCEPT ![i].refs = @ - 1]
    /\ last' = Outcome("Release", NoClsid, NoType, "ok", i, 0, << >>)
    /\ UNCHANGED << components_, singletons_, alias_map_, default_map_, loaded_libs_,
                    current_loading_plugin_path_, current_added_components_,
                    running_, load_pc, path_str, added_components_this_session,
                    load_bus, map_count, load_pre >>
    /\ UNCHANGED << qVars, busVars >>

(***************************************************************************)
(* LoadPluginInternal.  The platform decides whether the file maps and     *)
(* whether it exports the init symbol; init is a sequence of               *)
(* RegisterComponent calls that may end by raising.                        *)
(***************************************************************************)
\* plugin_manager.cpp:594-607: the bus handle of this load.
LoadBus == GetService(components_, singletons_, objects, kEventBus, IEventBusType, TRUE)

FailureEvents(bus, p) ==
    IF bus THEN << Event("PluginLoadFailureEvent", p) >> ELSE << >>

\* PlatformLoadLibrary fails.
LoadPluginInternal_MapFails(p) ==
    /\ load_pc = "idle"
    /\ singletons_' = LoadBus.singletons
    /\ last' = Outcome("LoadPlugin", p, NoType, "LoadLibrary failed", NoInst, 0,
                       FailureEvents(LoadBus.err = kSuccess, p))
    /\ UNCHANGED << components_, alias_map_, default_map_, loaded_libs_,
                    current_loading_plugin_path_, current_added_components_,
                    running_, load_pc, path_str, added_components_this_session,
                    load_bus, map_count, objects, load_pre >>
    /\ UNCHANGED << qVars, busVars >>

\* The file maps but has no init symbol: it is unmapped again.
LoadPluginInternal_NoInit(p) ==
    /\ load_pc = "idle"
    /\ map_count[p] < MaxMapCount
    /\ singletons_' = LoadBus.singletons
    /\ last' = Outcome("LoadPlugin", p, NoType, "GetProcAddress failed", NoInst, 0,
                       FailureEvents(LoadBus.err = kSuccess, p))
    /\ UNCHANGED << components_, alias_map_, default_map_, loaded_libs_,
                    current_loading_plugin_path_, current_added_components_,
                    running_, load_pc, path_str, added_components_this_session,
                    load_bus, map_count, objects, load_pre >>
    /\ UNCHANGED << qVars, busVars >>

\* The file maps and init is entered.
LoadPluginInternal_Begin(p) ==
    /\ load_pc = "idle"
    /\ map_count[p] < MaxMapCount
    /\ load_pre' = Snapshot
    /\ singletons_' = LoadBus.singletons
    /\ load_bus' = (LoadBus.err = kSuccess)
    /\ map_count' = [map_count EXCEPT ![p] = @ + 1]
    /\ path_str' = p
    /\ current_loading_plugin_path_' = p
    /\ current_added_components_' = TRUE
    /\ added_components_this_session' = << >>
    /\ load_pc' = "init"
    /\ last' = Outcome("LoadPlugin", p, NoType, "init", NoInst, 0, << >>)
    /\ UNCHANGED << components_, alias_map_, default_map_, loaded_libs_,
                    running_, objects >>
    /\ UNCHANGED << qVars, busVars >>

\* init raises something of its own.
InitThrows ==
    /\ load_pc = "init"
    /\ load_pc' = "threw"
    /\ last' = Outcome("init", path_str, NoType, "exception", NoInst, 0, << >>)
    /\ UNCHANGED << components_, singletons_, alias_map_, default_map_, loaded_libs_,
                    current_loading_plugin_path_, current_added_components_,
                    running_, path_str, added_components_this_session, load_bus,
                    map_count, objects, load_pre >>
    /\ UNCHANGED << qVars, busVars >>

\* loaded_libs_[path_str] = lib_handle
RecordLibrary(libs, path) == libs \cup {path}

\* plugin_manager.cpp:663-675: init returned.
LoadPluginInternal_Return ==
    /\ load_pc = "init"
    /\ current_loading_plugin_path_' = NoPath
    /\ current_added_components_' = FALSE
    /\ loaded_libs_' = RecordLibrary(loaded_libs_, path_str)
    /\ last' = Outcome("LoadPlugin", path_str, NoType, "ok", NoInst, 0,
                       IF load_bus THEN << Event("PluginLoadSuccessEvent", path_str) >>
                                   ELSE << >>)
    /\ load_pc' = "idle"
    /\ path_str' = NoPath
    /\ added_components_this_session' = << >>
    /\ load_bus' = FALSE
    /\ load_pre' = NoSnapshot
    /\ UNCHANGED << components_, singletons_, alias_map_, default_map_, running_,
                    map_count, objects >>
    /\ UNCHANGED << qVars, busVars >>

\* plugin_manager.cpp:677-710: init raised.
LoadPluginInternal_Catch ==
    /\ load_pc = "threw"
    /\ LET S == RollbackRegistrations(
                  [components |-> components_, alias_map |-> alias_map_,
                   default_map |-> default_map_, singletons |-> singletons_],
                  added_components_this_session)
       IN /\ components_' = S.components
          /\ alias_map_' = S.alias_map
          /\ default_map_' = S.default_map
          /\ singletons_' = S.singletons
    /\ current_loading_plugin_path_' = NoPath
    /\ current_added_components_' = FALSE
    /\ map_count' = [map_count EXCEPT ![path_str] = @ - 1]
    /\ last' = Outcome("LoadPlugin", path_str, NoType, "init failed", NoInst, 0,
                       FailureEvents(load_bus, path_str))
    /\ load_pc' = "idle"
    /\ path_str' = NoPath
    /\ added_components_this_session' = << >>
    /\ load_bus' = FALSE
    /\ load_pre' = NoSnapshot
    /\ UNCHANGED << loaded_libs_, running_, objects >>
    /\ UNCHANGED << qVars, busVars >>

(***************************************************************************)
(* Event bus: subscription tables, publication, unsubscription.            *)
(***************************************************************************)
SubscriberCatalog == << "sub1", "sub2", "sub3" >>
Subscribers == { SubscriberCatalog[i] : i \in 1..NumSubscribers }
Senders == {"sender1"}

\* sender.get(): the address of a sender object.  A sender made after
\* another one was destroyed may get the address of the destroyed one.
ReusedSenders == {"sender1", "sender2"}
AddrOf(sender) == "addr1"
EventCatalog == << "E1", "E2" >>
EventIds == { EventCatalog[i] : i \in 1..NumEvents }
kDirect == "kDirect"
kQueued == "kQueued"
NoSender == "empty"

\* The wrapper SubscribeGlobal / SubscribeToSender build: it holds weak_sub
\* and the member function; id tells the wrappers apart.
Callback(id, weak_sub) == [id |-> id, weak_sub |-> weak_sub]

Subscription(subscriber_id, sender_id, callback, connection_type) ==
    [subscriber_id |-> subscriber_id, sender_id |-> sender_id,
     callback |-> callback, connection_type |-> connection_type]

\* A wrapper that also declines to run once its subscriber has unsubscribed.
ExpiredOrUnsubscribed(lv, w) == w \notin lv \/ w \in unsubscribed

\* A weak_ptr that never reports expiry.
ExpiredNever(lv, w) == FALSE

\* weak_ptr::expired.
Expired(lv, w) == w \notin lv

\* CleanupExpiredSubscriptions: remove_if over subs, pushing the subscriber of
\* every removed entry to the gc queue.
RECURSIVE CleanupExpiredSubscriptions(_, _, _, _)
CleanupExpiredSubscriptions(subs, check_sender_also, gc_queue, lv) ==
    IF subs = << >> THEN [subs |-> << >>, gc_queue |-> gc_queue]
    ELSE LET s == Head(subs)
             expired == \/ Expired(lv, s.subscriber_id)
                        \/ (check_sender_also /\ Expired(lv, s.sender_id))
             rest == CleanupExpiredSubscriptions(
                        Tail(subs), check_sender_also,
                        IF expired THEN Append(gc_queue, s.subscriber_id)
                                   ELSE gc_queue, lv)
         IN [subs |-> IF expired THEN rest.subs ELSE << s >> \o rest.subs,
             gc_queue |-> rest.gc_queue]

\* The partition loop of a fire: the callbacks of one connection type, in
\* list order.
RECURSIVE SelectCallsAny(_, _)
SelectCallsAny(subs, connection_type) ==
    IF subs = << >> THEN << >>
    ELSE << Head(subs).callback >> \o SelectCallsAny(Tail(subs), connection_type)

RECURSIVE SelectCalls(_, _)
SelectCalls(subs, connection_type) ==
    IF subs = << >> THEN << >>
    ELSE IF Head(subs).connection_type = connection_type
    THEN << Head(subs).callback >> \o SelectCalls(Tail(subs), connection_type)
    ELSE SelectCalls(Tail(subs), connection_type)

\* remove_if(is_same_subscriber).
RECURSIVE RemoveSubscriber(_, _)
RemoveSubscriber(subs, weak_id) ==
    IF subs = << >> THEN << >>
    ELSE IF Head(subs).subscriber_id = weak_id THEN RemoveSubscriber(Tail(subs), weak_id)
    ELSE << Head(subs) >> \o RemoveSubscriber(Tail(subs), weak_id)

IsDirect(s) == s.connection_type = kDirect

EventTask(queued) == [queued_calls |-> queued]

\* An EventTask that holds no function, and the empty what-string.
NoTask == EventTask(<< >>)
NoWhat == ""

\* The threads that may call PluginManager::Create, and the empty
\* s_ActiveInstance.  Managers are numbered in the order they are constructed.
Threads == {"t1", "t2"}
NoManager == 0

\* The mutexes of the Manager and the static one, and the threads that take
\* them: the callers of the Manager and its worker thread.
registry_mutex_ == "registry_mutex_"
event_mutex_ == "event_mutex_"
queue_mutex_ == "queue_mutex_"
s_InstanceMutex == "s_InstanceMutex"
Mutexes == {registry_mutex_, event_mutex_, queue_mutex_, s_InstanceMutex}
event_loop_thread_ == "event_loop_thread_"
LockThreads == Threads \cup {event_loop_thread_}
NoThread == "none"
LockInit ==
    /\ lock_owner = [m \in Mutexes |-> NoThread]
    /\ lock_script = [t \in LockThreads |-> << >>]

\* The process after the host's Create has returned: its Manager is the
\* active instance.
ProcessInit ==
    /\ s_ActiveInstance = 1
    /\ made_count = 1
    /\ create_pc = [t \in Threads |-> "idle"]
    /\ create_mgr = [t \in Threads |-> NoManager]
    /\ blocks = << >>
    /\ handles = << >>
    /\ destroyed = << >>
    /\ LockInit

BusInit ==
    /\ global_subscribers_ = EmptyMap
    /\ sender_subscribers_ = EmptyMap
    /\ global_sub_lookup_ = EmptyMap
    /\ sender_sub_lookup_ = EmptyMap
    /\ event_queue_ = << >>
    /\ gc_queue_ = << >>
    /\ live = Subscribers \cup Senders
    /\ sub_count = 0
    /\ fire_pc = "idle"
    /\ direct_calls = << >>
    /\ queued_calls = << >>
    /\ fire_published = << >>
    /\ fire_log = << >>
    /\ fire_skipped = << >>
    /\ unsubscribed = {}
    /\ worker_pc = "wait"
    /\ task_to_run = << >>
    /\ worker_what = NoWhat
    /\ worker_direct_calls = << >>
    /\ worker_queued_calls = << >>
    /\ worker_task = NoTask
    /\ worker_live = {}
    /\ worker_log = << >>
    /\ worker_fired = << >>
    /\ unload_mark = 0

\* What the bus actions leave alone besides the bus itself.
BusFrame == UNCHANGED << regVars, qVars, workerVars, lifeVars >>

\* SubscribeGlobal<TEvent>(subscriber, callback, type): the caller holds the
\* subscriber.
SubscribeGlobalImpl(event_id, sub, connection_type) ==
    /\ sub \in live
    /\ sub_count < MaxSubs
    /\ sub_count' = sub_count + 1
    /\ LET list == IF event_id \in DOMAIN global_subscribers_
                   THEN global_subscribers_[event_id] ELSE << >>
           seen == IF sub \in DOMAIN global_sub_lookup_
                   THEN global_sub_lookup_[sub] ELSE {}
       IN /\ global_subscribers_' =
                Put(global_subscribers_, event_id,
                    Append(list, Subscription(sub, NoSender,
                                              Callback(sub_count + 1, sub),
                                              connection_type)))
          /\ global_sub_lookup_' = Put(global_sub_lookup_, sub, seen \cup {event_id})
    /\ UNCHANGED << sender_subscribers_, sender_sub_lookup_, event_queue_, gc_queue_,
                    live, fire_pc, direct_calls, queued_calls, fire_published,
                    fire_log, fire_skipped >>
    /\ unsubscribed' = unsubscribed \ {sub}
    /\ BusFrame

\* SubscribeToSender<TEvent>(sender, subscriber, callback, type): the caller
\* holds both; sender_key is the address of the sender, sender_id the weak
\* reference to it.
SubscribeToSenderImpl(sender_key, event_id, sub_id, sender_id, connection_type) ==
    /\ sub_id \in live /\ sender_id \in live
    /\ sender_key = AddrOf(sender_id)
    /\ sub_count < MaxSubs
    /\ sub_count' = sub_count + 1
    /\ LET events == IF sender_key \in DOMAIN sender_subscribers_
                     THEN sender_subscribers_[sender_key] ELSE EmptyMap
           list == IF event_id \in DOMAIN events THEN events[event_id] ELSE << >>
           seen == IF sub_id \in DOMAIN sender_sub_lookup_
                   THEN sender_sub_lookup_[sub_id] ELSE {}
       IN /\ sender_subscribers_' =
                Put(sender_subscribers_, sender_key,
                    Put(events, event_id,
                        Append(list, Subscription(sub_id, sender_id,
                                                  Callback(sub_count + 1, sub_id),
                                                  connection_type))))
          /\ sender_sub_lookup_' =
                Put(sender_sub_lookup_, sub_id, seen \cup {<< sender_key, event_id >>})
    /\ UNCHANGED << global_subscribers_, global_sub_lookup_, event_queue_, gc_queue_,
                    live, fire_pc, direct_calls, queued_calls, fire_published,
                    fire_log, fire_skipped >>
    /\ unsubscribed' = unsubscribed \ {sub_id}
    /\ BusFrame

\* Unsubscribe(subscriber): the caller holds the subscriber.
Unsubscribe(subscriber) ==
    /\ subscriber \in live
    /\ global_subscribers_' =
          IF subscriber \in DOMAIN global_sub_lookup_
          THEN [e \in DOMAIN global_subscribers_ |->
                  IF e \in global_sub_lookup_[subscriber]
                  THEN RemoveSubscriber(global_subscribers_[e], subscriber)
                  ELSE global_subscribers_[e]]
          ELSE global_subscribers_
    /\ global_sub_lookup_' = Erase(global_sub_lookup_, subscriber)
    /\ sender_subscribers_' =
          IF subscriber \in DOMAIN sender_sub_lookup_
          THEN [k \in DOMAIN sender_subscribers_ |->
                  [e \in DOMAIN sender_subscribers_[k] |->
                     IF << k, e >> \in sender_sub_lookup_[subscriber]
                     THEN RemoveSubscriber(sender_subscribers_[k][e], subscriber)
                     ELSE sender_subscribers_[k][e]]]
          ELSE sender_subscribers_
    /\ sender_sub_lookup_' = Erase(sender_sub_lookup_, subscriber)
    /\ UNCHANGED << event_queue_, gc_queue_, live, sub_count, fire_pc, direct_calls,
                    queued_calls, fire_published, fire_log, fire_skipped >>
    /\ unsubscribed' = unsubscribed \cup {subscriber}
    /\ BusFrame

\* The last owner of a subscriber or sender object lets it go.
Expire(o) ==
    /\ o \in live
    /\ live' = live \ {o}
    /\ UNCHANGED << global_subscribers_, sender_subscribers_, global_sub_lookup_,
                    sender_sub_lookup_, event_queue_, gc_queue_, sub_count, fire_pc,
                    direct_calls, queued_calls, fire_published, fire_log,
                    fire_skipped >>
    /\ UNCHANGED unsubscribed
    /\ BusFrame

\* FireGlobalImpl up to the release of event_mutex_: find the list, clean it,
\* take the two snapshots.  Without a list the fire returns at once.
FireGlobalImpl_Begin(event_id) ==
    /\ fire_pc # "direct"
    /\ Len(event_queue_) < MaxQueue
    /\ fire_log' = << >>
    /\ fire_skipped' = << >>
    /\ IF event_id \notin DOMAIN global_subscribers_
       THEN /\ fire_pc' = "returned"
            /\ direct_calls' = << >>
            /\ queued_calls' = << >>
            /\ fire_published' = << >>
            /\ UNCHANGED << global_subscribers_, gc_queue_ >>
       ELSE LET c == CleanupExpiredSubscriptions(global_subscribers_[event_id],
                                                 FALSE, gc_queue_, live)
            IN /\ global_subscribers_' = Put(global_subscribers_, event_id, c.subs)
               /\ gc_queue_' = c.gc_queue
               /\ direct_calls' = SelectCalls(c.subs, kDirect)
               /\ queued_calls' = SelectCalls(c.subs, kQueued)
               /\ fire_published' = SelectSeq(c.subs, IsDirect)
               /\ fire_pc' = "direct"
    /\ UNCHANGED << sender_subscribers_, global_sub_lookup_, sender_sub_lookup_,
                    event_queue_, live, sub_count >>
    /\ UNCHANGED unsubscribed
    /\ BusFrame

\* FireToSenderImpl up to the release of event_mutex_; the caller holds a
\* sender at the address sender_key.
FireToSenderImpl_Begin(sender_key, event_id) ==
    /\ fire_pc # "direct"
    /\ Len(event_queue_) < MaxQueue
    /\ \E sender \in live : sender \in ReusedSenders /\ AddrOf(sender) = sender_key
    /\ fire_log' = << >>
    /\ fire_skipped' = << >>
    /\ IF \/ sender_key \notin DOMAIN sender_subscribers_
          \/ event_id \notin DOMAIN sender_subscribers_[sender_key]
       THEN /\ fire_pc' = "returned"
            /\ direct_calls' = << >>
            /\ queued_calls' = << >>
            /\ fire_published' = << >>
            /\ UNCHANGED << sender_subscribers_, gc_queue_ >>
       ELSE LET c == CleanupExpiredSubscriptions(
                        sender_subscribers_[sender_key][event_id],
                        TRUE, gc_queue_, live)
            IN /\ sender_subscribers_' =
                     Put(sender_subscribers_, sender_key,
                         Put(sender_subscribers_[sender_key], event_id, c.subs))
               /\ gc_queue_' = c.gc_queue
               /\ direct_calls' = SelectCalls(c.subs, kDirect)
               /\ queued_calls' = SelectCalls(c.subs, kQueued)
               /\ fire_published' = SelectSeq(c.subs, IsDirect)
               /\ fire_pc' = "direct"
    /\ UNCHANGED << global_subscribers_, global_sub_lookup_, sender_sub_lookup_,
                    event_queue_, live, sub_count >>
    /\ UNCHANGED unsubscribed
    /\ BusFrame

\* The elements of a sequence.
Range(seq) == { seq[i] : i \in 1..Len(seq) }

\* The direct callbacks in the subscriber lists as they are now.
ListedDirectCalls ==
    UNION { Range(SelectCalls(global_subscribers_[e], kDirect)) :
               e \in DOMAIN global_subscribers_ }
     \cup UNION { UNION { Range(SelectCalls(sender_subscribers_[k][e], kDirect)) :
                            e \in DOMAIN sender_subscribers_[k] } :
                     k \in DOMAIN sender_subscribers_ }

\* A delivery loop that walks the subscriber lists themselves in place of
\* the copies the fire took.
InvokeDirectListed(raises) ==
    /\ fire_pc = "direct"
    /\ direct_calls # << >>
    /\ ~ raises
    /\ \E cb \in ListedDirectCalls :
          /\ ~ Expired(live, cb.weak_sub)
          /\ fire_log' = Append(fire_log, [callback |-> cb, thread |-> "publisher",
                                           raised |-> FALSE])
    /\ direct_calls' = Tail(direct_calls)
    /\ UNCHANGED << global_subscribers_, sender_subscribers_, global_sub_lookup_,
                    sender_sub_lookup_, event_queue_, gc_queue_, live, sub_count,
                    fire_published, fire_skipped, fire_pc, queued_calls >>
    /\ UNCHANGED unsubscribed
    /\ BusFrame

\* One turn of the loop over direct_calls: the wrapper locks weak_sub and,
\* if the subscriber is still there, runs the member function, which may
\* raise; the exception leaves the fire.
InvokeDirect(raises) ==
    /\ fire_pc = "direct"
    /\ direct_calls # << >>
    /\ LET cb == Head(direct_calls)
       IN IF Expired(live, cb.weak_sub)
          THEN /\ ~ raises
               /\ fire_skipped' = Append(fire_skipped, cb)
               /\ direct_calls' = Tail(direct_calls)
               /\ UNCHANGED << fire_log, fire_pc, queued_calls >>
          ELSE /\ fire_log' = Append(fire_log, [callback |-> cb,
                                                thread |-> "publisher",
                                                raised |-> raises])
               /\ fire_pc' = IF raises THEN "threw" ELSE "direct"
               /\ direct_calls' = IF raises THEN << >> ELSE Tail(direct_calls)
               /\ queued_calls' = IF raises THEN << >> ELSE queued_calls
               /\ UNCHANGED fire_skipped
    /\ UNCHANGED << global_subscribers_, sender_subscribers_, global_sub_lookup_,
                    sender_sub_lookup_, event_queue_, gc_queue_, live, sub_count,
                    fire_published >>
    /\ UNCHANGED unsubscribed
    /\ BusFrame

\* After the direct loop: one composite task for the queued snapshot, then
\* the fire returns.
FireEnqueue ==
    /\ fire_pc = "direct"
    /\ direct_calls = << >>
    /\ event_queue_' = IF queued_calls # << >>
                       THEN Append(event_queue_, EventTask(queued_calls))
                       ELSE event_queue_
    /\ queued_calls' = << >>
    /\ fire_pc' = "returned"
    /\ UNCHANGED << global_subscribers_, sender_subscribers_, global_sub_lookup_,
                    sender_sub_lookup_, gc_queue_, live, sub_count, direct_calls,
                    fire_published, fire_log, fire_skipped >>
    /\ UNCHANGED unsubscribed
    /\ BusFrame

BusNext ==
    \/ \E e \in EventIds, s \in Subscribers, t \in {kDirect, kQueued} :
          SubscribeGlobalImpl(e, s, t)
    \/ \E k \in Senders, e \in EventIds, s \in Subscribers, t \in {kDirect, kQueued} :
          SubscribeToSenderImpl(AddrOf(k), e, s, k, t)
    \/ \E s \in Subscribers : Unsubscribe(s)
    \/ \E o \in Subscribers \cup Senders : Expire(o)
    \/ \E e \in EventIds : FireGlobalImpl_Begin(e)
    \/ \E k \in Senders, e \in EventIds : FireToSenderImpl_Begin(AddrOf(k), e)
    \/ \E r \in BOOLEAN : InvokeDirect(r)
    \/ FireEnqueue

(***************************************************************************)
(* The worker thread: EventLoop.                                           *)
(***************************************************************************)
kAsyncException == "AsyncExceptionEvent"
kUnknownWhat == "Unknown exception in async event loop."

\* What a callback run by the worker does: return, throw a std::exception
\* with a what-string, or throw something else.
WhatStrings == {"boom"}
Throws == {[kind |-> "none", what |-> NoWhat], [kind |-> "other", what |-> NoWhat]}
            \cup { [kind |-> "std", what |-> w] : w \in WhatStrings }

\* The argument the two catch clauses give to FireGlobal<AsyncExceptionEvent>.
CaughtWhatUnknown(thrown) == kUnknownWhat

CaughtWhat(thrown) == IF thrown.kind = "std" THEN thrown.what ELSE kUnknownWhat

\* event_queue_.front() and pop().
QueuePopBack(queue) == [task |-> queue[Len(queue)], rest |-> SubSeq(queue, 1, Len(queue) - 1)]

QueuePop(queue) == [task |-> Head(queue), rest |-> Tail(queue)]

WorkerEntry(cb, event, raised, what) ==
    [callback |-> cb, thread |-> "worker", event |-> event, raised |-> raised,
     what |-> what]

\* What the worker leaves alone besides the bus.
WorkerFrame == UNCHANGED << regVars, qVars, fire_pc, direct_calls, queued_calls,
                            fire_published, fire_log, fire_skipped, live,
                            sub_count, unsubscribed, lifeVars >>

\* The task phase up to the release of queue_mutex_: wait_for returns with a
\* task or on its timeout; running_ is true, so the loop goes on.
EventLoop_Dequeue ==
    /\ worker_pc = "wait"
    /\ (running_ \/ event_queue_ # << >>)
    /\ IF event_queue_ # << >>
       THEN LET p == QueuePop(event_queue_)
            IN /\ event_queue_' = p.rest
               /\ task_to_run' = p.task.queued_calls
               /\ worker_task' = p.task
               /\ worker_live' = live
               /\ worker_pc' = "run"
       ELSE /\ worker_pc' = "gc"
            /\ UNCHANGED << event_queue_, task_to_run, worker_task, worker_live >>
    /\ UNCHANGED << global_subscribers_, sender_subscribers_, global_sub_lookup_,
                    sender_sub_lookup_, gc_queue_, worker_what,
                    worker_direct_calls, worker_queued_calls, worker_log,
                    worker_fired >>
    /\ WorkerFrame

\* One turn of the loop inside the task: the wrapper locks weak_sub and, if
\* the subscriber is still there, runs the member function.  A throw leaves
\* the task and lands in a catch clause of EventLoop.
EventLoop_RunCallback(thrown) ==
    /\ worker_pc = "run"
    /\ task_to_run # << >>
    /\ LET cb == Head(task_to_run)
           raised == thrown.kind # "none"
       IN IF Expired(live, cb.weak_sub)
          THEN /\ ~ raised
               /\ task_to_run' = Tail(task_to_run)
               /\ worker_pc' = IF Tail(task_to_run) = << >> THEN "gc" ELSE "run"
               /\ UNCHANGED << worker_log, worker_what >>
          ELSE /\ worker_log' = Append(worker_log,
                                       WorkerEntry(cb, "task", raised, thrown.what))
               /\ task_to_run' = IF raised THEN << >> ELSE Tail(task_to_run)
               /\ worker_what' = IF raised THEN CaughtWhat(thrown) ELSE worker_what
               /\ worker_pc' = IF raised THEN "caught"
                               ELSE IF Tail(task_to_run) = << >> THEN "gc"
                               ELSE "run"
    /\ UNCHANGED << global_subscribers_, sender_subscribers_, global_sub_lookup_,
                    sender_sub_lookup_, event_queue_, gc_queue_,
                    worker_direct_calls, worker_queued_calls, worker_task,
                    worker_live, worker_fired >>
    /\ WorkerFrame

\* The catch clause: FireGlobal<AsyncExceptionEvent>(what) on the worker, up
\* to the release of event_mutex_.  worker_fired keeps the message of the
\* call and the direct subscriptions it found.
EventLoop_Catch ==
    /\ worker_pc = "caught"
    /\ IF kAsyncException \notin DOMAIN global_subscribers_
       THEN /\ worker_pc' = "gc"
            /\ worker_what' = NoWhat
            /\ worker_fired' = Append(worker_fired,
                                      [what |-> worker_what, direct |-> << >>])
            /\ UNCHANGED << global_subscribers_, gc_queue_, worker_direct_calls,
                            worker_queued_calls >>
       ELSE LET c == CleanupExpiredSubscriptions(
                        global_subscribers_[kAsyncException], FALSE, gc_queue_, live)
            IN /\ global_subscribers_' = Put(global_subscribers_, kAsyncException, c.subs)
               /\ gc_queue_' = c.gc_queue
               /\ worker_direct_calls' = SelectCalls(c.subs, kDirect)
               /\ worker_queued_calls' = SelectCalls(c.subs, kQueued)
               /\ worker_fired' = Append(worker_fired,
                                         [what |-> worker_what,
                                          direct |-> SelectSeq(c.subs, IsDirect)])
               /\ worker_pc' = "async"
               /\ UNCHANGED worker_what
    /\ UNCHANGED << sender_subscribers_, global_sub_lookup_, sender_sub_lookup_,
                    event_queue_, task_to_run, worker_task, worker_live,
                    worker_log >>
    /\ WorkerFrame

\* The direct loop of that fire, on the worker.  A callback that throws here
\* throws out of the catch clause and out of the thread function:
\* std::terminate.
EventLoop_AsyncDirect(raises) ==
    /\ worker_pc = "async"
    /\ worker_direct_calls # << >>
    /\ LET cb == Head(worker_direct_calls)
       IN IF Expired(live, cb.weak_sub)
          THEN /\ ~ raises
               /\ worker_direct_calls' = Tail(worker_direct_calls)
               /\ UNCHANGED << worker_log, worker_pc, worker_queued_calls >>
          ELSE /\ worker_log' = Append(worker_log,
                                       WorkerEntry(cb, "async", raises, worker_what))
               /\ worker_pc' = IF raises THEN "terminated" ELSE "async"
               /\ worker_direct_calls' = IF raises THEN << >>
                                         ELSE Tail(worker_direct_calls)
               /\ worker_queued_calls' = IF raises THEN << >> ELSE worker_queued_calls
    /\ UNCHANGED << global_subscribers_, sender_subscribers_, global_sub_lookup_,
                    sender_sub_lookup_, event_queue_, gc_queue_, task_to_run,
                    worker_what, worker_task, worker_live, worker_fired >>
    /\ WorkerFrame

\* The end of that fire: the queued AsyncExceptionEvent subscribers become a
\* task of their own, and the catch clause is left.
EventLoop_AsyncEnqueue ==
    /\ worker_pc = "async"
    /\ worker_direct_calls = << >>
    /\ event_queue_' = IF worker_queued_calls # << >>
                       THEN Append(event_queue_, EventTask(worker_queued_calls))
                       ELSE event_queue_
    /\ worker_queued_calls' = << >>
    /\ worker_what' = NoWhat
    /\ worker_pc' = "gc"
    /\ UNCHANGED << global_subscribers_, sender_subscribers_, global_sub_lookup_,
                    sender_sub_lookup_, gc_queue_, task_to_run, worker_direct_calls,
                    worker_task, worker_live, worker_log, worker_fired >>
    /\ WorkerFrame

\* The GC phase: one entry of gc_queue_, if there is one, is taken and its
\* rows of the two reverse-lookup tables are erased.  The entry is the id of
\* a subscriber no caller can name any more, so the two lock sections are one
\* step here.  The turn of the loop ends, and with it the record of what the
\* turn did.
EventLoop_GC ==
    /\ worker_pc = "gc"
    /\ IF gc_queue_ # << >>
       THEN /\ gc_queue_' = Tail(gc_queue_)
            /\ global_sub_lookup_' = Erase(global_sub_lookup_, Head(gc_queue_))
            /\ sender_sub_lookup_' = Erase(sender_sub_lookup_, Head(gc_queue_))
       ELSE UNCHANGED << gc_queue_, global_sub_lookup_, sender_sub_lookup_ >>
    /\ worker_pc' = "wait"
    /\ worker_task' = NoTask
    /\ worker_live' = {}
    /\ worker_log' = << >>
    /\ worker_fired' = << >>
    /\ UNCHANGED << global_subscribers_, sender_subscribers_, event_queue_,
                    task_to_run, worker_what, worker_direct_calls,
                    worker_queued_calls >>
    /\ WorkerFrame

\* make_shared of a sender at the address a destroyed sender had.  No
\* subscription names the new object yet.
NewSender(o) ==
    /\ o \notin live
    /\ \A other \in live : other \in ReusedSenders => AddrOf(other) # AddrOf(o)
    /\ \A k \in DOMAIN sender_subscribers_ : \A e \in DOMAIN sender_subscribers_[k] :
          \A i \in 1..Len(sender_subscribers_[k][e]) :
             sender_subscribers_[k][e][i].sender_id # o
    /\ live' = live \cup {o}
    /\ UNCHANGED << global_subscribers_, sender_subscribers_, global_sub_lookup_,
                    sender_sub_lookup_, event_queue_, gc_queue_, sub_count, fire_pc,
                    direct_calls, queued_calls, fire_published, fire_log,
                    fire_skipped, unsubscribed >>
    /\ BusFrame

WorkerEvents == EventIds \cup {kAsyncException}

\* Global and sender events, senders that come and go, and the worker with
\* callbacks that return.
UnsubNext ==
    \/ \E e \in EventIds, s \in Subscribers, t \in {kDirect, kQueued} :
          SubscribeGlobalImpl(e, s, t)
    \/ \E k \in ReusedSenders, e \in EventIds, s \in Subscribers :
          SubscribeToSenderImpl(AddrOf(k), e, s, k, kDirect)
    \/ \E s \in Subscribers : Unsubscribe(s)
    \/ \E o \in Subscribers \cup ReusedSenders : Expire(o)
    \/ \E o \in ReusedSenders : NewSender(o)
    \/ \E e \in EventIds : FireGlobalImpl_Begin(e)
    \/ \E k \in ReusedSenders, e \in EventIds : FireToSenderImpl_Begin(AddrOf(k), e)
    \/ \E r \in BOOLEAN : InvokeDirect(r)
    \/ FireEnqueue
    \/ EventLoop_Dequeue
    \/ EventLoop_RunCallback([kind |-> "none", what |-> NoWhat])
    \/ EventLoop_GC


\* Global events and the worker.
WorkerNext ==
    \/ \E e \in WorkerEvents, s \in Subscribers, t \in {kDirect, kQueued} :
          SubscribeGlobalImpl(e, s, t)
    \/ \E s \in Subscribers : Unsubscribe(s)
    \/ \E o \in Subscribers \cup Senders : Expire(o)
    \/ \E e \in EventIds : FireGlobalImpl_Begin(e)
    \/ \E r \in BOOLEAN : InvokeDirect(r)
    \/ FireEnqueue
    \/ EventLoop_Dequeue
    \/ \E x \in Throws : EventLoop_RunCallback(x)
    \/ EventLoop_Catch
    \/ \E r \in BOOLEAN : EventLoop_AsyncDirect(r)
    \/ EventLoop_AsyncEnqueue
    \/ EventLoop_GC

(***************************************************************************)
(* UnloadAllPlugins.                                                       *)
(***************************************************************************)
IPluginQueryType == InterfaceDetails(IPluginQuery_kIid, 1, 0)

\* PlatformSpecificLibraryUnload(): every library handle in the Manager's
\* loaded_libs_, as the call finds it, is released.
PlatformSpecificLibraryUnload(mc, libs) ==
    [p \in DOMAIN mc |-> IF p \in libs THEN mc[p] - 1 ELSE mc[p]]

\* ClearAllRegistries without the two reverse-lookup tables.
ClearAllRegistriesNoLookup ==
    [event_queue |-> << >>, gc_queue |-> << >>,
     sender_subscribers |-> EmptyMap, global_subscribers |-> EmptyMap,
     global_sub_lookup |-> global_sub_lookup_, sender_sub_lookup |-> sender_sub_lookup_,
     singletons |-> EmptyMap, registry |-> EmptyRegistry, loaded_libs |-> {},
     current_loading_plugin_path |-> NoPath, current_added_components |-> FALSE,
     map_count |-> PlatformSpecificLibraryUnload(map_count, {})]

\* ClearAllRegistries, under the three locks: what the members are afterwards.
\* loaded_libs_.clear() precedes the call of PlatformSpecificLibraryUnload,
\* which therefore finds no handle.
ClearAllRegistries ==
    [event_queue |-> << >>, gc_queue |-> << >>,
     sender_subscribers |-> EmptyMap, global_subscribers |-> EmptyMap,
     global_sub_lookup |-> EmptyMap, sender_sub_lookup |-> EmptyMap,
     singletons |-> EmptyMap, registry |-> EmptyRegistry, loaded_libs |-> {},
     current_loading_plugin_path |-> NoPath, current_added_components |-> FALSE,
     map_count |-> PlatformSpecificLibraryUnload(map_count, {})]

\* The core registrations that leave nothing behind.
ReRegisterCoreNone(R, bus_ok) == R

\* UnloadAllPlugins after ClearAllRegistries: the three core registrations.
ReRegisterCore(R, bus_ok) == RegisterCoreServices(R, bus_ok)

\* UnloadAllPlugins, called by the host while no load is in flight:
\* ClearAllRegistries, the core registrations, and the GetService<IEventBus>
\* of its last step, whose fire finds no subscriber.
UnloadAllPlugins ==
    /\ load_pc = "idle"
    /\ LET c == ClearAllRegistries
           R == ReRegisterCore(c.registry, running_)
           bus == GetService(R.components, c.singletons, objects, kEventBus,
                             IEventBusType, TRUE)
       IN /\ components_' = R.components
          /\ alias_map_' = R.alias_map
          /\ default_map_' = R.default_map
          /\ singletons_' = bus.singletons
          /\ loaded_libs_' = c.loaded_libs
          /\ current_loading_plugin_path_' = c.current_loading_plugin_path
          /\ current_added_components_' = c.current_added_components
          /\ map_count' = c.map_count
          /\ event_queue_' = c.event_queue
          /\ gc_queue_' = c.gc_queue
          /\ sender_subscribers_' = c.sender_subscribers
          /\ global_subscribers_' = c.global_subscribers
          /\ global_sub_lookup_' = c.global_sub_lookup
          /\ sender_sub_lookup_' = c.sender_sub_lookup
          /\ last' = Outcome("UnloadAllPlugins", NoClsid, NoType, "ok", bus.inst, 0,
                             << >>)
    /\ unload_mark' = sub_count
    /\ UNCHANGED << running_, load_pc, path_str, added_components_this_session,
                    load_bus, objects, load_pre >>
    /\ UNCHANGED << live, sub_count, fire_pc, direct_calls, queued_calls,
                    fire_published, fire_log, fire_skipped, unsubscribed >>
    /\ UNCHANGED << qVars, workerVars, s_ActiveInstance, create_pc, create_mgr,
                    made_count, castVars, lockVars >>

(***************************************************************************)
(* PluginPtr and PluginCast: handles, control blocks, destruction.         *)
(***************************************************************************)
ControlBlock(obj, cls, count) == [obj |-> obj, cls |-> cls, count |-> count]
Handle(block, iid) == [block |-> block, iid |-> iid]

\* PluginPtr<T>(static_cast<T*>(interface_ptr)): a control block of its own
\* for an object that already has one.
FreshControlBlock(blks, g) ==
    [blocks |-> Append(blks, ControlBlock(blks[g.block].obj, blks[g.block].cls, 1)),
     block |-> Len(blks) + 1]

\* PluginPtr<T>(component, static_cast<T*>(interface_ptr)): the aliasing
\* constructor takes a share of component's control block.
AliasingConstructor(blks, g) ==
    [blocks |-> [blks EXCEPT ![g.block].count = @ + 1], block |-> g.block]

\* PluginCastImpl<T>(component): empty when the object does not answer for
\* T, else a handle made by the aliasing constructor.
PluginCastImpl(blks, g, T) ==
    IF QueryInterfaceRaw(blks[g.block].cls, T.iid, T.major, T.minor).err # kSuccess
    THEN [blocks |-> blks, made |-> FALSE, handle |-> g]
    ELSE LET a == AliasingConstructor(blks, g)
         IN [blocks |-> a.blocks, made |-> TRUE, handle |-> Handle(a.block, T.iid)]

RemoveAt(seq, i) == SubSeq(seq, 1, i - 1) \o SubSeq(seq, i + 1, Len(seq))

CastFrame == UNCHANGED << regVars, qVars, global_subscribers_, sender_subscribers_,
                          global_sub_lookup_, sender_sub_lookup_, event_queue_,
                          gc_queue_, live, sub_count, fire_pc, direct_calls,
                          queued_calls, fire_published, fire_log, fire_skipped,
                          unsubscribed, workerVars, unload_mark, s_ActiveInstance,
                          create_pc, create_mgr, made_count, lockVars >>

\* A factory's make_shared<Impl>(): a new object, its control block, and the
\* PluginPtr<IComponent> the factory returns.
MakeShared(cls) ==
    /\ Len(destroyed) < MaxInstances
    /\ Len(handles) < MaxHandles
    /\ destroyed' = Append(destroyed, 0)
    /\ blocks' = Append(blocks, ControlBlock(Len(destroyed) + 1, cls, 1))
    /\ handles' = Append(handles, Handle(Len(blocks) + 1, IComponent_kIid))
    /\ CastFrame

\* PluginCast<T>(handles[i]); the result, if not empty, is kept.
PluginCastCall(i, T) ==
    /\ i \in 1..Len(handles)
    /\ Len(handles) < MaxHandles
    /\ LET r == PluginCastImpl(blocks, handles[i], T)
       IN /\ blocks' = r.blocks
          /\ handles' = IF r.made THEN Append(handles, r.handle) ELSE handles
    /\ UNCHANGED destroyed
    /\ CastFrame

\* The copy constructor of PluginPtr.
CopyHandle(i) ==
    /\ i \in 1..Len(handles)
    /\ Len(handles) < MaxHandles
    /\ blocks' = [blocks EXCEPT ![handles[i].block].count = @ + 1]
    /\ handles' = Append(handles, handles[i])
    /\ UNCHANGED destroyed
    /\ CastFrame

\* The destructor of PluginPtr: the use count of the control block goes
\* down, and the handle that takes it to zero runs the object's destructor.
DropHandle(i) ==
    /\ i \in 1..Len(handles)
    /\ LET b == handles[i].block
       IN /\ blocks' = [blocks EXCEPT ![b].count = @ - 1]
          /\ destroyed' = IF blocks[b].count = 1
                          THEN [destroyed EXCEPT ![blocks[b].obj] = @ + 1]
                          ELSE destroyed
    /\ handles' = RemoveAt(handles, i)
    /\ CastFrame

CastClasses == {"SimpleImplA", "Combo"}

CastNext ==
    \/ \E c \in CastClasses : MakeShared(c)
    \/ \E i \in 1..MaxHandles, T \in ReqTypes : PluginCastCall(i, T)
    \/ \E i \in 1..MaxHandles : CopyHandle(i)
    \/ \E i \in 1..MaxHandles : DropHandle(i)

(***************************************************************************)
(* Specifications.                                                         *)
(***************************************************************************)
RegAliases == {NoAlias, "Simple.A"}
ResolveAliases == {"Simple.A", "z3y.core.eventbus"}
ILoggerType == InterfaceDetails(ILogger_kIid, 1, 0)

\* The classes whose code a library file holds: its init registers these.
LibOf(c) ==
    CASE c = "SimpleImplA" -> LibCatalog[1]
      [] c \in {"Combo", "LoggerService"} -> LibCatalog[2]
      [] OTHER -> LibCatalog[3]
LibClasses(p) == { c \in PluginClsids : LibOf(c) = p }

\* Registry and loader: loads that succeed or fail, the registrations of a
\* library's init, and an init's own use of a service it registered.
Next ==
    \/ \E c \in LibClasses(path_str), a \in RegAliases, d \in BOOLEAN :
          load_pc = "init" /\ RegisterComponentCall(c, IsService(c), a, d)
    \/ \E c \in LibClasses(path_str) :
          load_pc = "init" /\ GetServiceCall(c, ILoggerType, TRUE)
    \/ \E p \in Libs : LoadPluginInternal_MapFails(p)
    \/ \E p \in Libs : LoadPluginInternal_NoInit(p)
    \/ \E p \in Libs : LoadPluginInternal_Begin(p)
    \/ InitThrows
    \/ LoadPluginInternal_Return
    \/ LoadPluginInternal_Catch

\* Resolver: the host registers, resolves by ClassId and by alias, and
\* releases handles; no load is in flight.
ResolveClasses == {"SimpleImplA", "Combo"}
ResolveKeys == ResolveClasses \cup {kEventBus}
ResolveNext ==
    \/ \E c \in ResolveKeys, a \in RegAliases :
          RegisterComponentCall(c, IsService(c), a, FALSE)
    \/ \E c \in ResolveKeys, T \in ReqTypes, made \in BOOLEAN : GetServiceCall(c, T, made)
    \/ \E c \in ResolveKeys, T \in ReqTypes, made \in BOOLEAN : CreateInstanceCall(c, T, made)
    \/ \E a \in ResolveAliases, T \in ReqTypes, made \in BOOLEAN : GetServiceAliasCall(a, T, made)
    \/ \E a \in ResolveAliases, T \in ReqTypes, made \in BOOLEAN : CreateInstanceAliasCall(a, T, made)
    \/ \E i \in 1..MaxInstances : ReleaseHandle(i)

Init == RegInit /\ QIdle /\ BusInit /\ ProcessInit
Spec == Init /\ [][Next]_vars

\* A second thread: the host registers a component of its own while a load
\* is, or is not, in flight on the loader's thread.  RegisterComponent holds
\* registry_mutex_ for its writes and reads the two members the load in
\* flight has set; an exception goes to the host, not into the init function.
HostClsid == ClassCatalog[4]
RegisterComponentByHost(clsid, is_singleton, alias, is_default) ==
    /\ load_pc \in {"idle", "init", "threw"}
    /\ LET r == RegisterComponent(
                  Registry(components_, alias_map_, default_map_,
                           added_components_this_session),
                  current_added_components_, current_loading_plugin_path_,
                  running_, clsid, is_singleton, alias,
                  GetInterfaceDetails(clsid), is_default)
       IN /\ components_' = r.R.components
          /\ alias_map_' = r.R.alias_map
          /\ default_map_' = r.R.default_map
          /\ added_components_this_session' = r.R.added
          /\ last' = Outcome("RegisterComponent", clsid, NoType, r.err, NoInst, 0, r.fired)
    /\ UNCHANGED << singletons_, loaded_libs_, current_loading_plugin_path_,
                    current_added_components_, running_, load_pc, path_str, load_bus,
                    map_count, objects, load_pre >>
    /\ UNCHANGED << qVars, busVars >>

ConcurrentNext ==
    \/ \E c \in LibClasses(path_str), d \in BOOLEAN :
          load_pc = "init" /\ RegisterComponentCall(c, IsService(c), NoAlias, d)
    \/ \E p \in Libs : LoadPluginInternal_Begin(p)
    \/ InitThrows
    \/ LoadPluginInternal_Return
    \/ LoadPluginInternal_Catch
    \/ RegisterComponentByHost(HostClsid, FALSE, NoAlias, FALSE)

SpecConcurrent == Init /\ [][ConcurrentNext]_vars

SpecResolve == Init /\ [][ResolveNext]_vars

QNext == QueryCall \/ QueryReset
QueryInit == RegInit /\ QInit /\ BusInit /\ ProcessInit
SpecQuery == QueryInit /\ [][QNext]_vars

SpecBus == Init /\ [][BusNext]_vars

SpecWorker == Init /\ [][WorkerNext]_vars

SpecUnsub == Init /\ [][UnsubNext]_vars

\* The host loads libraries, takes and releases service handles, subscribes
\* and fires, and unloads everything.
UnloadClasses == {"LoggerService"}

UnloadNext ==
    \/ \E c \in LibClasses(path_str) \cap UnloadClasses, d \in BOOLEAN :
          load_pc = "init" /\ RegisterComponentCall(c, IsService(c), NoAlias, d)
    \/ \E c \in UnloadClasses : LoadPluginInternal_Begin(LibOf(c))
    \/ LoadPluginInternal_Return
    \/ \E c \in UnloadClasses : GetServiceCall(c, ILoggerType, TRUE)
    \/ \E i \in 1..MaxInstances : ReleaseHandle(i)
    \/ \E s \in Subscribers : SubscribeGlobalImpl(EventCatalog[1], s, kQueued)
    \/ SubscribeToSenderImpl(AddrOf("sender1"), EventCatalog[1], SubscriberCatalog[1],
                             "sender1", kDirect)
    \/ Expire(SubscriberCatalog[1])
    \/ FireGlobalImpl_Begin(EventCatalog[1])
    \/ FireToSenderImpl_Begin(AddrOf("sender1"), EventCatalog[1])
    \/ InvokeDirect(FALSE)
    \/ FireEnqueue
    \/ EventLoop_Dequeue
    \/ EventLoop_RunCallback([kind |-> "none", what |-> NoWhat])
    \/ EventLoop_GC
    \/ UnloadAllPlugins

SpecUnload == Init /\ [][UnloadNext]_vars

SpecCast == Init /\ [][CastNext]_vars

\* The events the loader publishes, and whether a direct callback of a live
\* subscriber of one raises when it is delivered.  i_event_bus.h:105-122
\* FireGlobal publishes when the event has subscribers; event_bus_impl.cpp:
\* 291-295 runs the direct callbacks on the publisher with no handler
\* around them.  With live, direct subscribers only the publication
\* changes nothing in the bus.
LoadEvents == {"PluginLoadSuccessEvent", "PluginLoadFailureEvent"}

DirectSubscriberOf(event_id) ==
    /\ event_id \in DOMAIN global_subscribers_
    /\ \E i \in 1..Len(global_subscribers_[event_id]) :
          /\ global_subscribers_[event_id][i].connection_type = kDirect
          /\ global_subscribers_[event_id][i].subscriber_id \in live

\* plugin_manager.cpp:663-693: init returned, the library is recorded, and a
\* direct subscriber of PluginLoadSuccessEvent raises inside the try block:
\* the handler rolls the registrations back, publishes the failure event,
\* unmaps the library and returns false.
LoadPluginInternal_ReturnThrows ==
    /\ load_pc = "init"
    /\ load_bus
    /\ DirectSubscriberOf("PluginLoadSuccessEvent")
    /\ loaded_libs_' = RecordLibrary(loaded_libs_, path_str)
    /\ LET S == RollbackRegistrations(
                  [components |-> components_, alias_map |-> alias_map_,
                   default_map |-> default_map_, singletons |-> singletons_],
                  added_components_this_session)
       IN /\ components_' = S.components
          /\ alias_map_' = S.alias_map
          /\ default_map_' = S.default_map
          /\ singletons_' = S.singletons
    /\ current_loading_plugin_path_' = NoPath
    /\ current_added_components_' = FALSE
    /\ map_count' = [map_count EXCEPT ![path_str] = @ - 1]
    /\ last' = Outcome("LoadPlugin", path_str, NoType, "subscriber threw", NoInst, 0,
                       << Event("PluginLoadSuccessEvent", path_str) >>
                          \o FailureEvents(load_bus, path_str))
    /\ load_pc' = "idle"
    /\ path_str' = NoPath
    /\ added_components_this_session' = << >>
    /\ load_bus' = FALSE
    /\ load_pre' = NoSnapshot
    /\ UNCHANGED << running_, objects >>
    /\ UNCHANGED << qVars, busVars >>

\* plugin_manager.cpp:677-693: init raised, and a direct subscriber of
\* PluginLoadFailureEvent raises inside the handler: PlatformUnloadLibrary
\* and the return are skipped and the exception leaves LoadPluginInternal.
LoadPluginInternal_CatchRaises ==
    /\ load_pc = "threw"
    /\ load_bus
    /\ DirectSubscriberOf("PluginLoadFailureEvent")
    /\ LET S == RollbackRegistrations(
                  [components |-> components_, alias_map |-> alias_map_,
                   default_map |-> default_map_, singletons |-> singletons_],
                  added_components_this_session)
       IN /\ components_' = S.components
          /\ alias_map_' = S.alias_map
          /\ default_map_' = S.default_map
          /\ singletons_' = S.singletons
    /\ current_loading_plugin_path_' = NoPath
    /\ current_added_components_' = FALSE
    /\ last' = Outcome("LoadPlugin", path_str, NoType, "raised", NoInst, 0,
                       FailureEvents(load_bus, path_str))
    /\ load_pc' = "idle"
    /\ path_str' = NoPath
    /\ added_components_this_session' = << >>
    /\ load_bus' = FALSE
    /\ load_pre' = NoSnapshot
    /\ UNCHANGED << loaded_libs_, map_count, running_, objects >>
    /\ UNCHANGED << qVars, busVars >>

\* plugin_manager.cpp:614-621: PlatformLoadLibrary fails and a direct
\* subscriber of PluginLoadFailureEvent raises: the exception leaves
\* LoadPluginInternal.
LoadPluginInternal_MapFailsRaises(p) ==
    /\ load_pc = "idle"
    /\ LoadBus.err = kSuccess
    /\ DirectSubscriberOf("PluginLoadFailureEvent")
    /\ singletons_' = LoadBus.singletons
    /\ last' = Outcome("LoadPlugin", p, NoType, "raised", NoInst, 0,
                       FailureEvents(TRUE, p))
    /\ UNCHANGED << components_, alias_map_, default_map_, loaded_libs_,
                    current_loading_plugin_path_, current_added_components_,
                    running_, load_pc, path_str, added_components_this_session,
                    load_bus, map_count, objects, load_pre >>
    /\ UNCHANGED << qVars, busVars >>

\* Loads that succeed or fail, registrations by a library's init and by
\* the host outside any load, and UnloadAllPlugins.
LoadNext ==
    \/ \E c \in LibClasses(path_str), d \in BOOLEAN :
          load_pc = "init" /\ RegisterComponentCall(c, IsService(c), NoAlias, d)
    \/ \E c \in PluginClsids :
          load_pc = "idle" /\ RegisterComponentCall(c, IsService(c), NoAlias, FALSE)
    \/ \E p \in Libs : LoadPluginInternal_MapFails(p)
    \/ \E p \in Libs : LoadPluginInternal_NoInit(p)
    \/ \E p \in Libs : LoadPluginInternal_Begin(p)
    \/ InitThrows
    \/ LoadPluginInternal_Return
    \/ LoadPluginInternal_Catch
    \/ LoadPluginInternal_ReturnThrows
    \/ LoadPluginInternal_CatchRaises
    \/ \E p \in Libs : LoadPluginInternal_MapFailsRaises(p)
    \/ \E e \in LoadEvents : SubscribeGlobalImpl(e, SubscriberCatalog[1], kDirect)
    \/ UnloadAllPlugins

SpecLoad == Init /\ [][LoadNext]_vars

\* One step of the worker thread, whatever its position in EventLoop.
EventLoop ==
    \/ EventLoop_Dequeue
    \/ \E x \in Throws : EventLoop_RunCallback(x)
    \/ EventLoop_Catch
    \/ \E r \in BOOLEAN : EventLoop_AsyncDirect(r)
    \/ EventLoop_AsyncEnqueue
    \/ EventLoop_GC

\* Subscribers and senders that expire, publications that find them, and
\* the worker.  The worker is a thread of its own whose wait_for returns
\* after kLoopTimeout at the latest, so it takes its next step whenever it
\* has one; nothing obliges a publisher to publish.
GCNext ==
    \/ \E s \in Subscribers : SubscribeGlobalImpl(EventCatalog[1], s, kQueued)
    \/ SubscribeGlobalImpl(kAsyncException, SubscriberCatalog[2], kDirect)
    \/ \E k \in Senders, s \in Subscribers :
          SubscribeToSenderImpl(AddrOf(k), EventCatalog[1], s, k, kDirect)
    \/ \E o \in Subscribers \cup Senders : Expire(o)
    \/ FireGlobalImpl_Begin(EventCatalog[1])
    \/ \E k \in Senders : FireToSenderImpl_Begin(AddrOf(k), EventCatalog[1])
    \/ InvokeDirect(FALSE)
    \/ FireEnqueue
    \/ EventLoop

SpecGC == Init /\ [][GCNext]_vars /\ WF_vars(EventLoop)

(***************************************************************************)
(* ~PluginManager and the worker's way out of EventLoop.                   *)
(***************************************************************************)
\* if (!running_ && event_queue_.empty()) return;
EventLoop_Return ==
    /\ worker_pc = "wait"
    /\ ~ running_
    /\ event_queue_ = << >>
    /\ worker_pc' = "exited"
    /\ UNCHANGED << global_subscribers_, sender_subscribers_, global_sub_lookup_,
                    sender_sub_lookup_, event_queue_, gc_queue_, task_to_run,
                    worker_what, worker_direct_calls, worker_queued_calls,
                    worker_task, worker_live, worker_log, worker_fired >>
    /\ WorkerFrame

Join == [kind |-> "join", mutex |-> "none"]
Clear == [kind |-> "clear", mutex |-> "none"]

\* ~PluginManager, first part: running_ = false under queue_mutex_ and
\* notify_one.  No publisher is inside a fire, and none starts one later.
Destructor_Stop(t) ==
    /\ running_
    /\ load_pc = "idle"
    /\ fire_pc # "direct"
    /\ lock_script[t] = << >>
    /\ running_' = FALSE
    /\ lock_script' = [lock_script EXCEPT ![t] = << Join, Clear >>]
    /\ UNCHANGED << components_, singletons_, alias_map_, default_map_, loaded_libs_,
                    current_loading_plugin_path_, current_added_components_,
                    load_pc, path_str, added_components_this_session, load_bus,
                    map_count, objects, last, load_pre >>
    /\ UNCHANGED << qVars, global_subscribers_, sender_subscribers_,
                    global_sub_lookup_, sender_sub_lookup_, event_queue_, gc_queue_,
                    live, sub_count, fire_pc, direct_calls, queued_calls,
                    fire_published, fire_log, fire_skipped, unsubscribed,
                    workerVars, unload_mark, s_ActiveInstance, create_pc,
                    create_mgr, made_count, castVars, lock_owner >>

\* event_loop_thread_.join() returns once EventLoop has returned.
Destructor_Join(t) ==
    /\ lock_script[t] # << >>
    /\ Head(lock_script[t]) = Join
    /\ worker_pc = "exited"
    /\ worker_pc' = "joined"
    /\ lock_script' = [lock_script EXCEPT ![t] = Tail(@)]
    /\ UNCHANGED << regVars, qVars, global_subscribers_, sender_subscribers_,
                    global_sub_lookup_, sender_sub_lookup_, event_queue_, gc_queue_,
                    live, sub_count, fire_pc, direct_calls, queued_calls,
                    fire_published, fire_log, fire_skipped, unsubscribed,
                    task_to_run, worker_what, worker_direct_calls,
                    worker_queued_calls, worker_task, worker_live, worker_log,
                    worker_fired, unload_mark, s_ActiveInstance, create_pc,
                    create_mgr, made_count, castVars, lock_owner >>

\* ~PluginManager, last part: s_ActiveInstance is reset if it is this
\* Manager, then ClearAllRegistries.
Destructor_Clear(t) ==
    /\ lock_script[t] # << >>
    /\ Head(lock_script[t]) = Clear
    /\ lock_script' = [lock_script EXCEPT ![t] = Tail(@)]
    /\ s_ActiveInstance' = NoManager
    /\ components_' = ClearAllRegistries.registry.components
    /\ alias_map_' = ClearAllRegistries.registry.alias_map
    /\ default_map_' = ClearAllRegistries.registry.default_map
    /\ singletons_' = ClearAllRegistries.singletons
    /\ loaded_libs_' = ClearAllRegistries.loaded_libs
    /\ map_count' = ClearAllRegistries.map_count
    /\ event_queue_' = ClearAllRegistries.event_queue
    /\ gc_queue_' = ClearAllRegistries.gc_queue
    /\ sender_subscribers_' = ClearAllRegistries.sender_subscribers
    /\ global_subscribers_' = ClearAllRegistries.global_subscribers
    /\ global_sub_lookup_' = ClearAllRegistries.global_sub_lookup
    /\ sender_sub_lookup_' = ClearAllRegistries.sender_sub_lookup
    /\ UNCHANGED << current_loading_plugin_path_, current_added_components_,
                    running_, load_pc, path_str, added_components_this_session,
                    load_bus, objects, last, load_pre, qVars, live, sub_count,
                    fire_pc, direct_calls, queued_calls, fire_published, fire_log,
                    fire_skipped, unsubscribed, workerVars, unload_mark, create_pc,
                    create_mgr, made_count, castVars, lock_owner >>

\* Publishers, the worker and the teardown: queued subscribers of an event,
\* a direct subscriber of AsyncExceptionEvent, fires and UnloadAllPlugins
\* while the Manager runs, and ~PluginManager on a host thread.
TeardownWorker == EventLoop \/ EventLoop_Return
TeardownNext ==
    \/ \E s \in Subscribers : running_ /\ SubscribeGlobalImpl(EventCatalog[1], s, kQueued)
    \/ running_ /\ SubscribeGlobalImpl(kAsyncException, SubscriberCatalog[2], kDirect)
    \/ \E o \in Subscribers : Expire(o)
    \/ running_ /\ FireGlobalImpl_Begin(EventCatalog[1])
    \/ FireEnqueue
    \/ running_ /\ UnloadAllPlugins
    \/ TeardownWorker
    \/ Destructor_Stop("t1")
    \/ Destructor_Join("t1")
    \/ Destructor_Clear("t1")

SpecTeardown ==
    /\ Init /\ [][TeardownNext]_vars
    /\ WF_vars(TeardownWorker)
    /\ WF_vars(Destructor_Join("t1") \/ Destructor_Clear("t1"))

(***************************************************************************)
(* Locking.  Each operation is the sequence of lock, unlock and call steps *)
(* its code takes, in order; a thread runs one operation at a time.        *)
(***************************************************************************)
Acq(m) == [kind |-> "lock", mutex |-> m]
Rel(m) == [kind |-> "unlock", mutex |-> m]
AcqAll == [kind |-> "scoped_lock", mutex |-> "all"]
RelAll == [kind |-> "scoped_unlock", mutex |-> "all"]
CallCallback == [kind |-> "callback", mutex |-> "none"]
CallFactory == [kind |-> "factory", mutex |-> "none"]
CallInit == [kind |-> "init", mutex |-> "none"]
CallPlatform == [kind |-> "platform", mutex |-> "none"]

\* The three locks ClearAllRegistries takes together.
ManagerMutexes == {registry_mutex_, event_mutex_, queue_mutex_}

\* FireGlobalImpl with the task pushed before event_mutex_ is released.
FireGlobalImplNestedLocks ==
    << Acq(event_mutex_), Acq(queue_mutex_), Rel(queue_mutex_), Rel(event_mutex_),
       CallCallback >>

\* FireGlobalImpl and FireToSenderImpl: the lists are partitioned under
\* event_mutex_, the direct callbacks run with no lock, the task is pushed
\* under queue_mutex_.
FireGlobalImplLocks ==
    << Acq(event_mutex_), Rel(event_mutex_), CallCallback,
       Acq(queue_mutex_), Rel(queue_mutex_) >>
FireToSenderImplLocks ==
    << Acq(event_mutex_), Rel(event_mutex_), CallCallback,
       Acq(queue_mutex_), Rel(queue_mutex_) >>

\* SubscribeGlobalImpl, SubscribeToSenderImpl, Unsubscribe: one lock_guard.
SubscribeLocks == << Acq(event_mutex_), Rel(event_mutex_) >>
UnsubscribeLocks == << Acq(event_mutex_), Rel(event_mutex_) >>

\* GetActiveInstance: one lock_guard on the static mutex.
GetActiveInstanceLocks == << Acq(s_InstanceMutex), Rel(s_InstanceMutex) >>

\* RegisterComponent: the tables are written and GetActiveInstance is called
\* under registry_mutex_; ComponentRegisterEvent is fired after its release.
RegisterComponentLocks ==
    << Acq(registry_mutex_) >> \o GetActiveInstanceLocks \o << Rel(registry_mutex_) >>
       \o FireGlobalImplLocks

\* RollbackRegistrations and GetClsidFromAlias: one lock_guard.
RollbackRegistrationsLocks == << Acq(registry_mutex_), Rel(registry_mutex_) >>
GetClsidFromAliasLocks == << Acq(registry_mutex_), Rel(registry_mutex_) >>

\* GetService<T>(clsid): the whole body, the factory call included, is under
\* registry_mutex_.  The factory of a core service calls GetActiveInstance.
GetServiceLocks(core) ==
    << Acq(registry_mutex_), CallFactory >>
       \o (IF core THEN GetActiveInstanceLocks ELSE << >>)
       \o << Rel(registry_mutex_) >>

\* CreateInstance<T>(clsid): the factory is copied under registry_mutex_ and
\* called after its release.
CreateInstanceLocks == << Acq(registry_mutex_), Rel(registry_mutex_), CallFactory >>

\* LoadPluginInternal: the bus is resolved, the transients are set, the init
\* function registers one component, and then either the library is
\* recorded or the registrations are rolled back; one event is fired.
LoadPluginInternalLocks(init_throws) ==
    GetActiveInstanceLocks \o GetServiceLocks(TRUE)
       \o << Acq(registry_mutex_), Rel(registry_mutex_), CallInit >>
       \o RegisterComponentLocks
       \o << Acq(registry_mutex_), Rel(registry_mutex_) >>
       \o (IF init_throws THEN RollbackRegistrationsLocks ELSE << >>)
       \o FireGlobalImplLocks

\* ClearAllRegistries: std::scoped_lock on the three, the platform unload
\* inside it.
ClearAllRegistriesLocks == << AcqAll, CallPlatform, RelAll >>

\* UnloadAllPlugins: ClearAllRegistries, the three core registrations, the
\* GetService<IEventBus> and the fire of its last step.
UnloadAllPluginsLocks ==
    ClearAllRegistriesLocks \o RegisterComponentLocks \o RegisterComponentLocks
       \o RegisterComponentLocks \o GetServiceLocks(TRUE) \o FireGlobalImplLocks

\* One iteration of EventLoop: the pop under queue_mutex_, the task with no
\* lock, the FireGlobal of a catch clause, and the two event_mutex_ sections
\* of the GC phase.
EventLoopLocks(caught) ==
    << Acq(queue_mutex_), Rel(queue_mutex_), CallCallback >>
       \o (IF caught THEN FireGlobalImplLocks ELSE << >>)
       \o << Acq(event_mutex_), Rel(event_mutex_), Acq(event_mutex_), Rel(event_mutex_) >>

\* What a caller of the Manager may start.
HostOperations ==
    { FireGlobalImplLocks, FireToSenderImplLocks, SubscribeLocks, UnsubscribeLocks,
      RegisterComponentLocks, RollbackRegistrationsLocks, GetClsidFromAliasLocks,
      GetServiceLocks(TRUE), GetServiceLocks(FALSE), CreateInstanceLocks,
      LoadPluginInternalLocks(TRUE), LoadPluginInternalLocks(FALSE),
      UnloadAllPluginsLocks }

Held(t) == {m \in Mutexes : lock_owner[m] = t}

LockFrame == UNCHANGED << regVars, qVars, global_subscribers_, sender_subscribers_,
                          global_sub_lookup_, sender_sub_lookup_, event_queue_,
                          gc_queue_, live, sub_count, fire_pc, direct_calls,
                          queued_calls, fire_published, fire_log, fire_skipped,
                          unsubscribed, workerVars, unload_mark, s_ActiveInstance,
                          create_pc, create_mgr, made_count, castVars >>

\* A caller enters an operation; the worker enters its next iteration.
BeginOperation(t, script) ==
    /\ lock_script[t] = << >>
    /\ lock_script' = [lock_script EXCEPT ![t] = script]
    /\ UNCHANGED lock_owner
    /\ LockFrame

\* lock(): the thread goes on once the mutex is free.
Lock(t) ==
    /\ lock_script[t] # << >>
    /\ Head(lock_script[t]).kind = "lock"
    /\ lock_owner[Head(lock_script[t]).mutex] = NoThread
    /\ lock_owner' = [lock_owner EXCEPT ![Head(lock_script[t]).mutex] = t]
    /\ lock_script' = [lock_script EXCEPT ![t] = Tail(@)]
    /\ LockFrame

Unlock(t) ==
    /\ lock_script[t] # << >>
    /\ Head(lock_script[t]).kind = "unlock"
    /\ lock_owner' = [lock_owner EXCEPT ![Head(lock_script[t]).mutex] = NoThread]
    /\ lock_script' = [lock_script EXCEPT ![t] = Tail(@)]
    /\ LockFrame

\* std::scoped_lock: std::lock takes all three or none.
ScopedLock(t) ==
    /\ lock_script[t] # << >>
    /\ Head(lock_script[t]).kind = "scoped_lock"
    /\ \A m \in ManagerMutexes : lock_owner[m] = NoThread
    /\ lock_owner' = [m \in Mutexes |-> IF m \in ManagerMutexes THEN t ELSE lock_owner[m]]
    /\ lock_script' = [lock_script EXCEPT ![t] = Tail(@)]
    /\ LockFrame

ScopedUnlock(t) ==
    /\ lock_script[t] # << >>
    /\ Head(lock_script[t]).kind = "scoped_unlock"
    /\ lock_owner' = [m \in Mutexes |-> IF m \in ManagerMutexes THEN NoThread
                                                               ELSE lock_owner[m]]
    /\ lock_script' = [lock_script EXCEPT ![t] = Tail(@)]
    /\ LockFrame

\* A callback, a factory, an init function or the platform unload runs and
\* returns.
Call(t) ==
    /\ lock_script[t] # << >>
    /\ Head(lock_script[t]).kind \in {"callback", "factory", "init", "platform"}
    /\ lock_script' = [lock_script EXCEPT ![t] = Tail(@)]
    /\ UNCHANGED lock_owner
    /\ LockFrame

LockNext ==
    \/ \E t \in Threads, script \in HostOperations : BeginOperation(t, script)
    \/ \E caught \in BOOLEAN : BeginOperation(event_loop_thread_, EventLoopLocks(caught))
    \/ \E t \in LockThreads : Lock(t)
    \/ \E t \in LockThreads : Unlock(t)
    \/ \E t \in LockThreads : ScopedLock(t)
    \/ \E t \in LockThreads : ScopedUnlock(t)
    \/ \E t \in LockThreads : Call(t)

SpecLocks == Init /\ [][LockNext]_vars

(***************************************************************************)
(* Calls made from inside a callback or a factory.  The code the callee    *)
(* runs is put in front of what its caller has yet to do, followed by the  *)
(* return to the caller.                                                   *)
(***************************************************************************)
MaxNesting == 1
Return == [kind |-> "return", mutex |-> "none"]

\* FireGlobalImpl with the direct callbacks run before event_mutex_ is
\* released.
FireGlobalImplHeldLocksN(n) ==
    << Acq(event_mutex_) >> \o [i \in 1..n |-> CallCallback]
       \o << Rel(event_mutex_), Acq(queue_mutex_), Rel(queue_mutex_) >>

\* FireGlobalImpl for a snapshot of n direct callbacks: the loop over
\* direct_calls runs after event_mutex_ is released.
FireGlobalImplLocksN(n) ==
    << Acq(event_mutex_), Rel(event_mutex_) >> \o [i \in 1..n |-> CallCallback]
       \o << Acq(queue_mutex_), Rel(queue_mutex_) >>

\* The calls in flight on a thread that have a caller to return to.
Nesting(t) == Len(SelectSeq(lock_script[t], LAMBDA s : s.kind = "return"))

\* How often the thread will have to unlock m to let it go: the unlocks it
\* has yet to do less the locks it has yet to take.
OpenLocks(script, m) ==
    Len(SelectSeq(script, LAMBDA s : s.kind = "unlock" /\ s.mutex = m))
       - Len(SelectSeq(script, LAMBDA s : s.kind = "lock" /\ s.mutex = m))

\* std::recursive_mutex::lock on event_mutex_: free, or owned by the caller.
LockRecursive(t) ==
    /\ lock_script[t] # << >>
    /\ Head(lock_script[t]) = Acq(event_mutex_)
    /\ lock_owner[event_mutex_] \in {NoThread, t}
    /\ lock_owner' = [lock_owner EXCEPT ![event_mutex_] = t]
    /\ lock_script' = [lock_script EXCEPT ![t] = Tail(@)]
    /\ LockFrame

\* std::recursive_mutex::unlock: the last unlock of the owner frees it.
UnlockRecursive(t) ==
    /\ lock_script[t] # << >>
    /\ Head(lock_script[t]) = Rel(event_mutex_)
    /\ lock_owner' = [lock_owner EXCEPT ![event_mutex_] =
                         IF OpenLocks(Tail(lock_script[t]), event_mutex_) > 0
                         THEN t ELSE NoThread]
    /\ lock_script' = [lock_script EXCEPT ![t] = Tail(@)]
    /\ LockFrame

\* std::mutex::lock and unlock.
LockPlain(t) ==
    /\ lock_script[t] # << >>
    /\ Head(lock_script[t]).mutex # event_mutex_
    /\ Lock(t)

UnlockPlain(t) ==
    /\ lock_script[t] # << >>
    /\ Head(lock_script[t]).mutex # event_mutex_
    /\ Unlock(t)

\* The callback or factory at the head of the script calls into the
\* Manager: the callee's steps come first, then the return, then what the
\* caller had left.
NestedCall(t, kind, script) ==
    /\ lock_script[t] # << >>
    /\ Head(lock_script[t]).kind = kind
    /\ Nesting(t) < MaxNesting
    /\ lock_script' = [lock_script EXCEPT ![t] = script \o << Return >> \o Tail(@)]
    /\ UNCHANGED lock_owner
    /\ LockFrame

\* The callee has returned and the callback or factory that called it
\* returns as well.
ReturnToCaller(t) ==
    /\ lock_script[t] # << >>
    /\ Head(lock_script[t]) = Return
    /\ lock_script' = [lock_script EXCEPT ![t] = Tail(@)]
    /\ UNCHANGED lock_owner
    /\ LockFrame

\* What a subscriber's callback may call on the bus.
CallbackOperations == {FireGlobalImplLocksN(1), SubscribeLocks, UnsubscribeLocks}

\* Publishers whose direct callbacks use the bus, subscribers, the worker
\* with queued callbacks that use the bus, and ClearAllRegistries.
NestNext ==
    \/ \E t \in Threads, n \in 0..2 : BeginOperation(t, FireGlobalImplLocksN(n))
    \/ \E t \in Threads, script \in {SubscribeLocks, ClearAllRegistriesLocks} :
          BeginOperation(t, script)
    \/ \E caught \in BOOLEAN : BeginOperation(event_loop_thread_, EventLoopLocks(caught))
    \/ \E t \in LockThreads, script \in CallbackOperations :
          NestedCall(t, "callback", script)
    \/ \E t \in LockThreads : ReturnToCaller(t)
    \/ \E t \in LockThreads : LockRecursive(t)
    \/ \E t \in LockThreads : UnlockRecursive(t)
    \/ \E t \in LockThreads : LockPlain(t)
    \/ \E t \in LockThreads : UnlockPlain(t)
    \/ \E t \in LockThreads : ScopedLock(t)
    \/ \E t \in LockThreads : ScopedUnlock(t)
    \/ \E t \in LockThreads : Call(t)

SpecNest == Init /\ [][NestNext]_vars

(***************************************************************************)
(* The resolver, thread by thread.  A call is the steps it has yet to      *)
(* take; the factory's result and the arguments travel with the steps.     *)
(***************************************************************************)
Find(clsid, T) == [kind |-> "find", mutex |-> "none", clsid |-> clsid, T |-> T]
FindFactory(clsid, T) ==
    [kind |-> "find_factory", mutex |-> "none", clsid |-> clsid, T |-> T]
CallFactoryOf(clsid, T) == [kind |-> "factory", mutex |-> "none", clsid |-> clsid, T |-> T]
Finish(clsid, T, cache, obj) ==
    [kind |-> "finish", mutex |-> "none", clsid |-> clsid, T |-> T, cache |-> cache,
     obj |-> obj]

\* GetService<T>(clsid) with the factory called after registry_mutex_ is
\* released, and the cache written under a second lock_guard.
GetServiceUnlockedSteps(clsid, T) ==
    << Acq(registry_mutex_), Find(clsid, T), Rel(registry_mutex_),
       CallFactoryOf(clsid, T), Acq(registry_mutex_),
       Finish(clsid, T, TRUE, NoInst), Rel(registry_mutex_) >>

\* GetService<T>(clsid): one lock_guard over the lookup, the factory call,
\* the cast and the cache write.
GetServiceSteps(clsid, T) ==
    << Acq(registry_mutex_), Find(clsid, T), CallFactoryOf(clsid, T),
       Finish(clsid, T, TRUE, NoInst), Rel(registry_mutex_) >>

\* CreateInstance<T>(clsid): the factory is copied under the lock_guard and
\* called after its release.
CreateInstanceSteps(clsid, T) ==
    << Acq(registry_mutex_), FindFactory(clsid, T), Rel(registry_mutex_),
       CallFactoryOf(clsid, T), Finish(clsid, T, FALSE, NoInst) >>

\* A throw or an early return: the factory call and the cast of this call
\* are not reached; the lock_guards on the way out still unlock.
RECURSIVE SkipBody(_)
SkipBody(script) ==
    IF script = << >> THEN << >>
    ELSE IF Head(script).kind = "finish" THEN Tail(script)
    ELSE IF Head(script).kind = "factory" THEN SkipBody(Tail(script))
    ELSE << Head(script) >> \o SkipBody(Tail(script))

\* base_obj, the local that holds what the factory returned.
RECURSIVE SetBaseObj(_, _)
SetBaseObj(script, obj) ==
    IF script = << >> THEN << >>
    ELSE IF Head(script).kind = "finish"
    THEN << [Head(script) EXCEPT !.obj = obj] >> \o Tail(script)
    ELSE << Head(script) >> \o SetBaseObj(Tail(script), obj)

ResolverFrame == UNCHANGED << components_, alias_map_, default_map_, loaded_libs_,
                              current_loading_plugin_path_, current_added_components_,
                              running_, load_pc, path_str,
                              added_components_this_session, load_bus, map_count,
                              last, load_pre, qVars, global_subscribers_,
                              sender_subscribers_, global_sub_lookup_,
                              sender_sub_lookup_, event_queue_, gc_queue_, live,
                              sub_count, fire_pc, direct_calls, queued_calls,
                              fire_published, fire_log, fire_skipped,
                              unsubscribed, workerVars,
                              unload_mark, s_ActiveInstance, create_pc, create_mgr,
                              made_count, castVars, lock_owner >>

\* plugin_manager.h:440-465: the descriptor and the cache are looked up; a
\* cached instance that is still alive is cast and returned.
GetService_Find(t) ==
    /\ lock_script[t] # << >>
    /\ Head(lock_script[t]).kind = "find"
    /\ LET s == Head(lock_script[t])
           hit == /\ s.clsid \in DOMAIN components_
                  /\ components_[s.clsid].is_singleton
                  /\ s.clsid \in DOMAIN singletons_
                  /\ Alive(objects, singletons_[s.clsid])
           miss == /\ s.clsid \in DOMAIN components_
                   /\ components_[s.clsid].is_singleton
                   /\ ~ hit
       IN /\ objects' =
                IF hit /\ PluginCast(ClassOfInst(objects, singletons_[s.clsid]), s.T).err
                             = kSuccess
                THEN AddRef(objects, singletons_[s.clsid]) ELSE objects
          /\ WithinBounds(objects')
          /\ lock_script' = [lock_script EXCEPT ![t] =
                                IF miss THEN Tail(@) ELSE SkipBody(Tail(@))]
    /\ UNCHANGED singletons_
    /\ ResolverFrame

\* plugin_manager.h:361-375: the descriptor is looked up and its factory
\* copied.
CreateInstance_Find(t) ==
    /\ lock_script[t] # << >>
    /\ Head(lock_script[t]).kind = "find_factory"
    /\ LET s == Head(lock_script[t])
           found == s.clsid \in DOMAIN components_ /\ ~ components_[s.clsid].is_singleton
       IN lock_script' = [lock_script EXCEPT ![t] =
                             IF found THEN Tail(@) ELSE SkipBody(Tail(@))]
    /\ UNCHANGED << singletons_, objects >>
    /\ ResolverFrame

\* auto base_obj = factory(): a new object that base_obj holds, or an empty
\* handle and kErrorFactoryFailed.
Resolver_Factory(t, made) ==
    /\ lock_script[t] # << >>
    /\ Head(lock_script[t]).kind = "factory"
    /\ Len(objects) < MaxInstances
    /\ LET f == Factory(objects, Head(lock_script[t]).clsid, made)
       IN /\ objects' = IF made THEN AddRef(f.objects, f.inst) ELSE objects
          /\ lock_script' = [lock_script EXCEPT ![t] =
                                IF made THEN SetBaseObj(Tail(@), f.inst)
                                        ELSE SkipBody(Tail(@))]
    /\ UNCHANGED singletons_
    /\ ResolverFrame

\* The cast of base_obj to T and, in GetService, singletons_[clsid] =
\* base_obj; if the cast fails base_obj is the last handle and the object is
\* destroyed, else the caller holds out_ptr.
Resolver_Finish(t) ==
    /\ lock_script[t] # << >>
    /\ Head(lock_script[t]).kind = "finish"
    /\ LET s == Head(lock_script[t])
           cast == PluginCast(ClassOfInst(objects, s.obj), s.T)
       IN /\ singletons_' = IF s.cache
                            THEN CacheNewSingleton(singletons_, s.clsid, s.obj, cast.err)
                            ELSE singletons_
          /\ objects' = IF cast.err = kSuccess THEN objects
                        ELSE [objects EXCEPT ![s.obj].refs = 0]
    /\ lock_script' = [lock_script EXCEPT ![t] = Tail(@)]
    /\ ResolverFrame

\* The factory at the head of the script, before it returns, calls the
\* resolver itself.
NestedFactoryCall(t, script) ==
    /\ lock_script[t] # << >>
    /\ Head(lock_script[t]).kind = "factory"
    /\ Nesting(t) < MaxNesting
    /\ lock_script' = [lock_script EXCEPT ![t] = script \o << Return >> \o @]
    /\ UNCHANGED lock_owner
    /\ LockFrame

\* What is left of the script once the call at its head has been left.
RECURSIVE AfterReturn(_)
AfterReturn(script) ==
    IF script = << >> THEN << >>
    ELSE IF Head(script) = Return THEN Tail(script)
    ELSE AfterReturn(Tail(script))

\* lock() on a std::mutex the calling thread owns is undefined: the thread
\* stays blocked (no step), or lock() throws std::system_error, which leaves
\* the nested call and arrives in the factory that made it.
LockRaises(t) ==
    /\ lock_script[t] # << >>
    /\ Head(lock_script[t]).kind = "lock"
    /\ Head(lock_script[t]).mutex # event_mutex_
    /\ lock_owner[Head(lock_script[t]).mutex] = t
    /\ lock_script' = [lock_script EXCEPT ![t] = AfterReturn(@)]
    /\ UNCHANGED lock_owner
    /\ LockFrame

\* The registry is written by a caller no resolver call overlaps.
RegistryFree == lock_owner[registry_mutex_] = NoThread

FactoryClasses == {"SimpleImplA", "LoggerService"}
FactoryTypes == {InterfaceDetails(ISimple_kIid, 1, 0), ILoggerType}
ResolverOperations ==
    { GetServiceSteps(c, T) : c \in FactoryClasses, T \in FactoryTypes }
       \cup { CreateInstanceSteps(c, T) : c \in FactoryClasses, T \in FactoryTypes }

\* Callers that resolve concurrently and let their handles go, and factories
\* that resolve a collaborator of their own.
FactoryNext ==
    \/ \E c \in FactoryClasses :
          RegistryFree /\ RegisterComponentCall(c, IsService(c), NoAlias, FALSE)
    \/ \E t \in Threads, script \in ResolverOperations : BeginOperation(t, script)
    \/ \E t \in Threads : Lock(t)
    \/ \E t \in Threads : Unlock(t)
    \/ \E t \in Threads : GetService_Find(t)
    \/ \E t \in Threads : CreateInstance_Find(t)
    \/ \E t \in Threads, made \in BOOLEAN : Resolver_Factory(t, made)
    \/ \E t \in Threads : Resolver_Finish(t)
    \/ \E t \in Threads, script \in ResolverOperations : NestedFactoryCall(t, script)
    \/ \E t \in Threads : ReturnToCaller(t)
    \/ \E t \in Threads : LockRaises(t)
    \/ \E i \in 1..MaxInstances : ReleaseHandle(i)

SpecFactory == Init /\ [][FactoryNext]_vars




(***************************************************************************)
(* PluginManager::Create and the static s_ActiveInstance.  The registry,   *)
(* bus and worker variables are the members of the Manager that            *)
(* s_ActiveInstance names; they are empty while it names none.             *)
(***************************************************************************)
busMembers == << global_subscribers_, sender_subscribers_, global_sub_lookup_,
                 sender_sub_lookup_, event_queue_, gc_queue_, live, sub_count,
                 fire_pc, direct_calls, queued_calls, fire_published, fire_log,
                 fire_skipped, unsubscribed >>

\* if (s_ActiveInstance) under s_InstanceMutex.
InstanceTakenNever(active) == FALSE
InstanceTaken(active) == active # NoManager

\* GetActiveInstance: a copy of the static taken under s_InstanceMutex.
GetActiveInstance == s_ActiveInstance

\* The process before any Create: no Manager, so no members.
CreateInit ==
    /\ components_ = EmptyMap
    /\ alias_map_ = EmptyMap
    /\ default_map_ = EmptyMap
    /\ singletons_ = EmptyMap
    /\ loaded_libs_ = {}
    /\ current_loading_plugin_path_ = NoPath
    /\ current_added_components_ = FALSE
    /\ running_ = FALSE
    /\ load_pc = "idle"
    /\ path_str = NoPath
    /\ added_components_this_session = << >>
    /\ load_bus = FALSE
    /\ map_count = [p \in Libs |-> 0]
    /\ objects = << >>
    /\ last = Outcome("None", NoClsid, NoType, "ok", NoInst, 0, << >>)
    /\ load_pre = NoSnapshot
    /\ QIdle
    /\ BusInit
    /\ s_ActiveInstance = NoManager
    /\ made_count = 0
    /\ create_pc = [t \in Threads |-> "idle"]
    /\ create_mgr = [t \in Threads |-> NoManager]
    /\ blocks = << >>
    /\ handles = << >>
    /\ destroyed = << >>
    /\ LockInit

\* std::make_shared<MakeSharedEnabler>(): the Manager is constructed before
\* the static is looked at.
Create_Make(t) ==
    /\ create_pc[t] \in {"idle", "threw", "done", "released"}
    /\ made_count < MaxCreates
    /\ made_count' = made_count + 1
    /\ create_mgr' = [create_mgr EXCEPT ![t] = made_count + 1]
    /\ create_pc' = [create_pc EXCEPT ![t] = "made"]
    /\ UNCHANGED << regVars, qVars, busMembers, workerVars, unload_mark,
                    s_ActiveInstance, castVars, lockVars >>

\* The critical section finds the static set: std::runtime_error.  The
\* unwinding destroys the Manager just made, whose destructor finds
\* s_ActiveInstance.get() # this and clears its own, empty, members.
Create_Throw(t) ==
    /\ create_pc[t] = "made"
    /\ InstanceTaken(s_ActiveInstance)
    /\ create_pc' = [create_pc EXCEPT ![t] = "threw"]
    /\ create_mgr' = [create_mgr EXCEPT ![t] = NoManager]
    /\ UNCHANGED << regVars, qVars, busMembers, workerVars, unload_mark,
                    s_ActiveInstance, made_count, castVars, lockVars >>

\* The critical section finds the static empty: s_ActiveInstance = manager.
\* From here on the members observed are those of the Manager just
\* constructed: empty tables, running_ = true.
Create_SetActive(t) ==
    /\ create_pc[t] = "made"
    /\ ~InstanceTaken(s_ActiveInstance)
    /\ s_ActiveInstance' = create_mgr[t]
    /\ create_pc' = [create_pc EXCEPT ![t] = "set"]
    /\ components_' = EmptyMap
    /\ alias_map_' = EmptyMap
    /\ default_map_' = EmptyMap
    /\ singletons_' = EmptyMap
    /\ loaded_libs_' = {}
    /\ running_' = TRUE
    /\ global_subscribers_' = EmptyMap
    /\ sender_subscribers_' = EmptyMap
    /\ global_sub_lookup_' = EmptyMap
    /\ sender_sub_lookup_' = EmptyMap
    /\ event_queue_' = << >>
    /\ gc_queue_' = << >>
    /\ UNCHANGED << current_loading_plugin_path_, current_added_components_,
                    load_pc, path_str, added_components_this_session, load_bus,
                    map_count, objects, last, load_pre, qVars, live, sub_count,
                    fire_pc, direct_calls, queued_calls, fire_published,
                    fire_log, fire_skipped, unsubscribed, workerVars,
                    unload_mark, create_mgr, made_count, castVars, lockVars >>

\* The rest of Create: the three core registrations, the worker thread, the
\* first GetService<IEventBus> and the ComponentRegisterEvent it publishes
\* (nobody can have subscribed yet), and the return of the Manager.
Create_Bootstrap(t) ==
    /\ create_pc[t] = "set"
    /\ LET R == RegisterCoreServices(Registry(components_, alias_map_, default_map_, << >>), TRUE)
       IN /\ components_' = R.components
          /\ alias_map_' = R.alias_map
          /\ default_map_' = R.default_map
          /\ singletons_' = GetService(R.components, singletons_, << >>, kEventBus,
                                       IEventBusType, TRUE).singletons
    /\ last' = Outcome("Create", NoClsid, NoType, "ok", NoInst, 0, << >>)
    /\ create_pc' = [create_pc EXCEPT ![t] = "done"]
    /\ UNCHANGED << loaded_libs_, current_loading_plugin_path_,
                    current_added_components_, running_, load_pc, path_str,
                    added_components_this_session, load_bus, map_count, objects,
                    load_pre, qVars, busMembers, workerVars, unload_mark,
                    s_ActiveInstance, create_mgr, made_count, castVars, lockVars >>

\* shared_ptr use count of Manager m: the handles Create returned that are
\* still held, and the strong reference in the static s_ActiveInstance.
UseCount(m) ==
    Cardinality({t \in Threads : create_pc[t] = "done" /\ create_mgr[t] = m})
       + (IF s_ActiveInstance = m THEN 1 ELSE 0)

\* manager.reset() in the host: the handle Create returned to t is dropped.
\* If it was the last owner, ~PluginManager runs: running_ = false, the
\* worker is joined, the static is reset if it names this Manager, and
\* ClearAllRegistries clears the members.
ReleaseManager(t) ==
    /\ create_pc[t] = "done"
    /\ create_pc' = [create_pc EXCEPT ![t] = "released"]
    /\ IF UseCount(create_mgr[t]) - 1 = 0
       THEN /\ running_' = FALSE
            /\ worker_pc' = "joined"
            /\ s_ActiveInstance' = IF s_ActiveInstance = create_mgr[t] THEN NoManager
                                                                      ELSE s_ActiveInstance
            /\ components_' = ClearAllRegistries.registry.components
            /\ alias_map_' = ClearAllRegistries.registry.alias_map
            /\ default_map_' = ClearAllRegistries.registry.default_map
            /\ singletons_' = ClearAllRegistries.singletons
            /\ loaded_libs_' = ClearAllRegistries.loaded_libs
            /\ map_count' = ClearAllRegistries.map_count
            /\ event_queue_' = ClearAllRegistries.event_queue
            /\ gc_queue_' = ClearAllRegistries.gc_queue
            /\ sender_subscribers_' = ClearAllRegistries.sender_subscribers
            /\ global_subscribers_' = ClearAllRegistries.global_subscribers
            /\ global_sub_lookup_' = ClearAllRegistries.global_sub_lookup
            /\ sender_sub_lookup_' = ClearAllRegistries.sender_sub_lookup
       ELSE UNCHANGED << running_, worker_pc, s_ActiveInstance, components_,
                         alias_map_, default_map_, singletons_, loaded_libs_,
                         map_count, event_queue_, gc_queue_, sender_subscribers_,
                         global_subscribers_, global_sub_lookup_,
                         sender_sub_lookup_ >>
    /\ UNCHANGED << current_loading_plugin_path_, current_added_components_,
                    load_pc, path_str, added_components_this_session, load_bus,
                    objects, last, load_pre, qVars, live, sub_count, fire_pc,
                    direct_calls, queued_calls, fire_published, fire_log,
                    fire_skipped, unsubscribed, task_to_run, worker_what,
                    worker_direct_calls, worker_queued_calls, worker_task,
                    worker_live, worker_log, worker_fired, unload_mark,
                    create_mgr, made_count, castVars, lockVars >>

\* Create has returned a Manager to the host.
Returned == \E t \in Threads : create_mgr[t] = s_ActiveInstance /\ create_pc[t] = "done"

\* Threads call Create, racing; what the host does with the Manager it got
\* runs between their steps.
CreateNext ==
    \/ \E t \in Threads : Create_Make(t)
    \/ \E t \in Threads : Create_Throw(t)
    \/ \E t \in Threads : Create_SetActive(t)
    \/ \E t \in Threads : Create_Bootstrap(t)
    \/ \E t \in Threads : ReleaseManager(t)
    \/ \E s \in Subscribers :
          Returned /\ SubscribeGlobalImpl(EventCatalog[1], s, kQueued)
    \/ Returned /\ FireGlobalImpl_Begin(EventCatalog[1])
    \/ FireEnqueue
    \/ Returned /\ EventLoop_Dequeue
    \/ EventLoop_RunCallback([kind |-> "none", what |-> NoWhat])
    \/ EventLoop_GC
    \/ \E c \in UnloadClasses : Returned /\ RegisterComponentCall(c, IsService(c), NoAlias, FALSE)

SpecCreate == CreateInit /\ [][CreateNext]_vars


(***************************************************************************)
(* Properties.                                                             *)
(***************************************************************************)
\* C1: a query for (iid, major, minor) on a component answers
\* interface-not-implemented with a null pointer when iid is none of its
\* interfaces (the root interface included), otherwise major-mismatch when
\* major differs from the interface's major, otherwise minor-too-low when
\* minor exceeds the interface's minor, otherwise success with a non-null
\* pointer.
C1_QueryVersionRule ==
    q_result # NoResult =>
      LET ds == GetInterfaceDetails(q_cls)
          hit == { k \in 1..Len(ds) : ds[k].iid = q_iid }
      IN IF hit = {}
         THEN q_result = QueryResult("null", kErrorInterfaceNotImpl)
         ELSE \A k \in hit :
                IF q_major # ds[k].major
                THEN q_result = QueryResult("null", kErrorVersionMajorMismatch)
                ELSE IF q_minor > ds[k].minor
                THEN q_result = QueryResult("null", kErrorVersionMinorTooLow)
                ELSE q_result.err = kSuccess /\ q_result.ptr # "null"

\* A query whose major differs and whose minor is too high has been answered.
C1_Witness ==
    /\ q_cls = "Combo" /\ q_iid = ILogger_kIid /\ q_major = 2 /\ q_minor = 2
    /\ q_result.err = kErrorVersionMajorMismatch

\* C2: every GetService and CreateInstance call ends with the error of the
\* first failing check, in the order unknown alias, unknown ClassId, kind
\* mismatch, empty factory result, failed cast (the cast's own error); the
\* factory is not called when an earlier check fails, and a call gives an
\* empty handle exactly when it raises.
C2_FirstFailingCheck ==
    [][ last'.op \in {"GetService", "CreateInstance"} =>
          LET o == last'
              by_alias == o.key \notin ClassIds
              clsid == IF by_alias /\ o.key \in DOMAIN alias_map_
                       THEN alias_map_[o.key] ELSE o.key
              wrong_kind == IF o.op = "GetService"
                            THEN ~ components_[clsid].is_singleton
                            ELSE components_[clsid].is_singleton
          IN /\ o.err \in InstanceError
             /\ (o.inst = NoInst) <=> (o.err # kSuccess)
             /\ IF by_alias /\ o.key \notin DOMAIN alias_map_
                THEN o.err = kErrorAliasNotFound /\ o.calls = 0
                ELSE IF clsid \notin DOMAIN components_
                THEN o.err = kErrorClsidNotFound /\ o.calls = 0
                ELSE IF wrong_kind
                THEN /\ o.err = IF o.op = "GetService" THEN kErrorNotAService
                                                       ELSE kErrorNotAComponent
                     /\ o.calls = 0
                ELSE \/ o.err = kErrorFactoryFailed /\ o.calls = 1
                     \/ o.err = PluginCast(clsid, o.T).err ]_vars

\* An alias of a registered component was given to GetService.
C2_Witness ==
    /\ last.op = "GetService" /\ last.key = "Simple.A"
    /\ last.err = kErrorNotAService
    /\ GetClsidFromAlias(alias_map_, "Simple.A") = "SimpleImplA"

\* C3: registering a singleton class does not call its factory; GetService
\* of a registered singleton class calls the factory once when the cache
\* holds no instance with a handle still held, and then returns a new
\* instance; while a handle to the cached instance is held it returns that
\* instance without calling the factory.
C3_LazySingleton ==
    [][ /\ last'.op = "RegisterComponent" => last'.calls = 0 /\ objects' = objects
        /\ ( /\ last'.op = "GetService"
             /\ last'.key \in DOMAIN components_
             /\ components_[last'.key].is_singleton ) =>
             LET c == last'.key
                 held == /\ c \in DOMAIN singletons_
                         /\ singletons_[c] \in 1..Len(objects)
                         /\ objects[singletons_[c]].refs > 0
             IN IF held \/ c \in CoreClsids
                THEN /\ last'.calls = 0
                     /\ last'.err = kSuccess => last'.inst = singletons_[c]
                ELSE /\ last'.calls = 1
                     /\ last'.err = kSuccess =>
                          /\ last'.inst = Len(objects) + 1
                          /\ Len(objects') = Len(objects) + 1
                          /\ objects'[last'.inst].cls = c ]_vars

\* A singleton was built, every handle to it released, and built again.
C3_Witness ==
    /\ last.op = "GetService" /\ last.key = "Combo" /\ last.err = kSuccess
    /\ last.calls = 1 /\ last.inst = 2
    /\ objects[1].cls = "Combo" /\ objects[1].refs = 0

\* C9: a GetService or CreateInstance call that raises leaves components_,
\* alias_map_, default_map_ and singletons_ as they were; a new singleton
\* whose cast fails is not cached.
C9_FailedResolveFrame ==
    [][ ( /\ last'.op \in {"GetService", "CreateInstance"}
          /\ last'.err # kSuccess ) =>
          UNCHANGED << components_, alias_map_, default_map_, singletons_ >> ]_vars

\* The factory of a singleton ran and the cast of its result failed.
C9_Witness ==
    /\ last.op = "GetService" /\ last.key = "Combo" /\ last.calls = 1
    /\ last.err = kErrorVersionMajorMismatch
    /\ "Combo" \notin DOMAIN singletons_

\* C4: RegisterComponent of a ClassId that is already a key of components_
\* raises, emits no ComponentRegisterEvent, and leaves components_,
\* alias_map_, default_map_, singletons_ and the load's list of added
\* ClassIds unchanged, so the first descriptor stays the one that resolves.
C4_DuplicateClsidRejected ==
    [][ ( /\ last'.op = "RegisterComponent"
          /\ last'.key \in DOMAIN components_ ) =>
          /\ last'.err # "ok"
          /\ last'.emitted = << >>
          /\ UNCHANGED << components_, alias_map_, default_map_, singletons_,
                          added_components_this_session >> ]_vars

\* An init registered a ClassId it had already registered.
C4_Witness ==
    /\ last.op = "RegisterComponent" /\ last.err = "duplicate_clsid"
    /\ load_pc = "threw"
    /\ last.key \in DOMAIN components_
    /\ Len(added_components_this_session) > 0

\* C5: every registered component that registered as default is the default
\* of each of its interfaces other than the root (so no interface has two),
\* and a default registration of a new ClassId c2 for an interface whose
\* default is another registered ClassId c1 raises the conflict error and
\* leaves that default at c1.
C5_DefaultConflict ==
    /\ [](\A c \in DOMAIN components_ :
            components_[c].is_default_registration =>
              \A k \in 1..Len(InterfacesOf(c)) :
                 /\ InterfacesOf(c)[k].iid \in DOMAIN default_map_
                 /\ default_map_[InterfacesOf(c)[k].iid] = c)
    /\ [][ \A c2 \in PluginClsids, a \in RegAliases :
             ( /\ RegisterComponentCall(c2, IsService(c2), a, TRUE)
               /\ c2 \notin DOMAIN components_ ) =>
               \A k \in 1..Len(InterfacesOf(c2)) :
                  LET I == InterfacesOf(c2)[k].iid
                  IN ( /\ I \in DOMAIN default_map_
                       /\ default_map_[I] # c2
                       /\ default_map_[I] \in DOMAIN components_ ) =>
                       /\ last'.err = "default_conflict"
                       /\ I \in DOMAIN default_map_'
                       /\ default_map_'[I] = default_map_[I] ]_vars

\* A second library asked for the default of an interface the first holds.
C5_Witness ==
    /\ last.op = "RegisterComponent" /\ last.key = "Combo"
    /\ last.err = "default_conflict"
    /\ "SimpleImplA" \in DOMAIN components_
    /\ ISimple_kIid \in DOMAIN default_map_
    /\ default_map_[ISimple_kIid] = "SimpleImplA"

\* C6: after RollbackRegistrations(L) no ClassId of L is a key of
\* components_, the target of an alias, the target of a default or a key of
\* singletons_, and the entries of ClassIds outside L are as before.
C6_RollbackUnreachable ==
    [][ ( last'.op = "LoadPlugin" /\ last'.err = "init failed" ) =>
          LET L == { added_components_this_session[k] :
                       k \in 1..Len(added_components_this_session) }
          IN /\ \A c \in L :
                  /\ c \notin DOMAIN components_'
                  /\ \A a \in DOMAIN alias_map_' : alias_map_'[a] # c
                  /\ \A i \in DOMAIN default_map_' : default_map_'[i] # c
                  /\ c \notin DOMAIN singletons_'
             /\ \A c \in DOMAIN components_ \ L :
                  c \in DOMAIN components_' /\ components_'[c] = components_[c]
             /\ \A a \in DOMAIN alias_map_ :
                  alias_map_[a] \notin L =>
                    a \in DOMAIN alias_map_' /\ alias_map_'[a] = alias_map_[a]
             /\ \A i \in DOMAIN default_map_ :
                  default_map_[i] \notin L =>
                    i \in DOMAIN default_map_' /\ default_map_'[i] = default_map_[i]
             /\ \A c \in DOMAIN singletons_ \ L :
                  c \in DOMAIN singletons_' /\ singletons_'[c] = singletons_[c] ]_vars

\* C7: when a load whose init raised returns, components_, alias_map_,
\* default_map_, singletons_ and loaded_libs_ equal their values before the
\* load began and the library is unmapped.
C7_FailedLoadTransactional ==
    [][ ( last'.op = "LoadPlugin" /\ last'.err = "init failed" ) =>
          /\ components_' = load_pre.components
          /\ alias_map_' = load_pre.alias_map
          /\ default_map_' = load_pre.default_map
          /\ singletons_' = load_pre.singletons
          /\ loaded_libs_' = load_pre.loaded_libs
          /\ map_count' = load_pre.map_count ]_vars

\* C8: when the init of a second library raises the default conflict against
\* a default held by a library loaded before, the failure event is emitted
\* for it, the defaults held before the load are as they were, every alias
\* that resolved before the load resolves to the same ClassId, and nothing
\* the rejected library registered is resolvable by ClassId or alias.
C8_FirstDefaultWins ==
    [][ ( /\ last'.op = "LoadPlugin" /\ last'.err = "init failed"
          /\ last.op = "RegisterComponent" /\ last.err = "default_conflict"
          /\ \E k \in 1..Len(InterfacesOf(last.key)) :
                LET I == InterfacesOf(last.key)[k].iid
                IN /\ I \in DOMAIN load_pre.default_map
                   /\ load_pre.components[load_pre.default_map[I]].source_plugin_path
                        \in Libs \ {path_str} ) =>
          /\ last'.emitted = << Event("PluginLoadFailureEvent", path_str) >>
          /\ \A I \in DOMAIN load_pre.default_map :
                I \in DOMAIN default_map_' /\ default_map_'[I] = load_pre.default_map[I]
          /\ \A a \in DOMAIN load_pre.alias_map :
                GetClsidFromAlias(alias_map_', a) = load_pre.alias_map[a]
          /\ \A c \in LibClasses(path_str) :
                /\ c \notin DOMAIN components_'
                /\ \A a \in DOMAIN alias_map_' : alias_map_'[a] # c ]_vars

\* C10 as stated: when a fire has ended, every subscriber that had a direct
\* subscription in the list when the event was published has been invoked
\* exactly once, on the publisher's thread, and the invocations are in
\* subscription order.
C10_DirectExactlyOnce ==
    fire_pc \in {"returned", "threw"} =>
      /\ \A k \in 1..Len(fire_published) :
            Cardinality({ j \in 1..Len(fire_log) :
                            fire_log[j].callback.weak_sub
                              = fire_published[k].subscriber_id }) = 1
      /\ \A j \in 1..Len(fire_log) : fire_log[j].thread = "publisher"
      /\ \A i, j \in 1..Len(fire_log) :
            i < j => fire_log[i].callback.id < fire_log[j].callback.id

\* C10, amended: a fire invokes only direct subscriptions that were in the
\* list when the event was published, each at most once, on the publisher's
\* thread, in subscription order; a subscription is left out only if its
\* subscriber was gone when its turn came or an earlier direct callback of
\* the fire raised, and a callback that raises ends the fire.
C10_DirectDelivery ==
    fire_pc \in {"returned", "threw"} =>
      LET Ran(cb) == \E j \in 1..Len(fire_log) : fire_log[j].callback = cb
      IN /\ \A j \in 1..Len(fire_log) :
               /\ fire_log[j].thread = "publisher"
               /\ \E k \in 1..Len(fire_published) :
                     fire_published[k].callback = fire_log[j].callback
               /\ fire_log[j].raised => (j = Len(fire_log) /\ fire_pc = "threw")
         /\ \A i, j \in 1..Len(fire_log) :
               i < j => fire_log[i].callback.id < fire_log[j].callback.id
         /\ fire_pc = "threw" => (fire_log # << >> /\ fire_log[Len(fire_log)].raised)
         /\ \A k \in 1..Len(fire_published) :
               \/ Ran(fire_published[k].callback)
               \/ Expired(live, fire_published[k].subscriber_id)
               \/ /\ fire_pc = "threw"
                  /\ fire_published[k].callback.id
                       > fire_log[Len(fire_log)].callback.id

\* A fire over two direct subscriptions of different subscribers returned
\* after running both.
C10_Witness ==
    /\ fire_pc = "returned"
    /\ Len(fire_published) = 2 /\ Len(fire_log) = 2
    /\ fire_published[1].subscriber_id # fire_published[2].subscriber_id
    /\ fire_log[1].callback = fire_published[1].callback

\* The worker has left the task it took: its callbacks returned, or one of
\* them threw.
TaskOver == worker_task # NoTask /\ worker_pc \in {"caught", "async", "gc", "terminated"}

\* The callbacks of the task which the worker has run, in the order it ran them.
TaskLog == SelectSeq(worker_log, LAMBDA x : x.event = "task")

C12_EnqueueOrder ==
    [][/\ event_queue_' # event_queue_ =>
             \/ /\ Len(event_queue_') = Len(event_queue_) + 1
                /\ SubSeq(event_queue_', 1, Len(event_queue_)) = event_queue_
             \/ /\ event_queue_ # << >>
                /\ event_queue_' = Tail(event_queue_)
                /\ worker_task' = Head(event_queue_)
                /\ task_to_run' = Head(event_queue_).queued_calls
       /\ worker_task' # worker_task /\ worker_task' # NoTask =>
             /\ worker_pc = "wait" /\ task_to_run = << >> /\ worker_task = NoTask
             /\ event_queue_ # << >> /\ worker_task' = Head(event_queue_)
       /\ task_to_run' # task_to_run /\ task_to_run' # << >> =>
             \E k \in 1..Len(worker_task'.queued_calls) :
                task_to_run' = SubSeq(worker_task'.queued_calls, k,
                                      Len(worker_task'.queued_calls))
       /\ \A j \in 1..Len(worker_log') :
             worker_log'[j].event = "task" =>
                \E k \in 1..Len(worker_task'.queued_calls) :
                   worker_task'.queued_calls[k] = worker_log'[j].callback
      ]_vars

\* The worker runs the task that was enqueued first while a different task,
\* enqueued later, waits in the queue.
C12_Witness ==
    /\ worker_pc = "run"
    /\ worker_log # << >>
    /\ event_queue_ # << >>
    /\ Head(event_queue_) # worker_task

\* The subscriptions of a subscriber that the bus still holds.
HoldsSubscription(sub) ==
    \/ \E e \in DOMAIN global_subscribers_ : \E i \in 1..Len(global_subscribers_[e]) :
          global_subscribers_[e][i].subscriber_id = sub
    \/ \E k \in DOMAIN sender_subscribers_ : \E e \in DOMAIN sender_subscribers_[k] :
          \E i \in 1..Len(sender_subscribers_[k][e]) :
             sender_subscribers_[k][e][i].subscriber_id = sub

\* C13 as stated: a fire that starts after Unsubscribe(S) has returned, with
\* no subscribe call of S in between, takes no callback of S into its
\* snapshots, and the bus holds no subscription of S.
C13_UnsubscribeSilences ==
    [][/\ \A sub \in unsubscribed' : ~ HoldsSubscription(sub)'
       /\ fire_pc # "direct" /\ fire_pc' = "direct" =>
             /\ \A i \in 1..Len(direct_calls') :
                   direct_calls'[i].weak_sub \notin unsubscribed
             /\ \A i \in 1..Len(queued_calls') :
                   queued_calls'[i].weak_sub \notin unsubscribed
      ]_vars

\* The AsyncExceptionEvent callbacks the worker has run, in the order it ran
\* them.
AsyncLog == SelectSeq(worker_log, LAMBDA x : x.event = "async")

\* C14: an exception a queued callback throws stays on the worker: the only
\* exceptions a publisher sees come from direct callbacks it ran itself.  The
\* worker answers the throw with one FireGlobal<AsyncExceptionEvent>, never
\* more; the event carries the what-string of the exception (the fixed text
\* for an exception without one) and is handed, on the worker thread and
\* before the catch clause ends, to the direct subscribers of the event, each
\* one that is still alive exactly once.
C14_AsyncExceptionPublished ==
    /\ fire_pc = "threw" =>
          /\ fire_log # << >>
          /\ fire_log[Len(fire_log)].raised
          /\ fire_log[Len(fire_log)].thread = "publisher"
    /\ Len(worker_fired) <= 1
    /\ worker_fired # << >> => (TaskLog # << >> /\ TaskLog[Len(TaskLog)].raised)
    /\ AsyncLog # << >> => worker_fired # << >>
    /\ (TaskOver /\ TaskLog # << >> /\ TaskLog[Len(TaskLog)].raised) =>
          LET thrown == TaskLog[Len(TaskLog)]
              expected == IF thrown.what # NoWhat THEN thrown.what ELSE kUnknownWhat
              Got(cb) == { j \in 1..Len(AsyncLog) : AsyncLog[j].callback = cb }
          IN /\ (worker_pc \in {"async", "gc", "terminated"}) => Len(worker_fired) = 1
             /\ \A n \in 1..Len(worker_fired) :
                   /\ worker_fired[n].what = expected
                   /\ \A j \in 1..Len(AsyncLog) :
                         /\ AsyncLog[j].thread = "worker"
                         /\ AsyncLog[j].what = expected
                         /\ \E k \in 1..Len(worker_fired[n].direct) :
                               /\ worker_fired[n].direct[k].callback = AsyncLog[j].callback
                               /\ worker_fired[n].direct[k].connection_type = kDirect
                   /\ \A k \in 1..Len(worker_fired[n].direct) :
                         LET cb == worker_fired[n].direct[k].callback
                         IN /\ Cardinality(Got(cb)) <= 1
                            /\ worker_pc = "gc" =>
                                  \/ Cardinality(Got(cb)) = 1
                                  \/ cb.weak_sub \notin live

\* A queued callback threw a std::exception, and the worker has handed the
\* AsyncExceptionEvent with its what-string to a direct subscriber and left
\* the catch clause.
C14_Witness ==
    /\ worker_pc = "gc"
    /\ TaskLog # << >> /\ TaskLog[Len(TaskLog)].raised
    /\ TaskLog[Len(TaskLog)].what \in WhatStrings
    /\ Len(AsyncLog) = 1
    /\ AsyncLog[1].what = TaskLog[Len(TaskLog)].what

\* C15 as stated: whatever the subscribers of AsyncExceptionEvent do, the
\* worker thread is never brought down, so the tasks behind a failing task
\* are still taken.
C15_WorkerSurvives == worker_pc # "terminated"

\* C16: after UnloadAllPlugins has returned and right after Create, the
\* Manager is registered under its own ClassId and under the event-bus and
\* query service ClassIds, the defaults of IEventBus and IPluginQuery name a
\* registered core entry, and GetService for either interface, by service
\* ClassId or by default, gives a handle to the Manager.
C16_CoreResolvable ==
    last.op \in {"UnloadAllPlugins", "Create"} =>
      /\ {kPluginManager, kEventBus, kPluginQuery} \subseteq DOMAIN components_
      /\ \A T \in {IEventBusType, IPluginQueryType} :
            /\ T.iid \in DOMAIN default_map_
            /\ default_map_[T.iid] \in CoreClsids \cap DOMAIN components_
            /\ LET r == GetService(components_, singletons_, objects,
                                   default_map_[T.iid], T, TRUE)
               IN r.err = kSuccess /\ r.inst = ManagerInst
      /\ LET r == GetService(components_, singletons_, objects, kEventBus,
                             IEventBusType, TRUE)
         IN r.err = kSuccess /\ r.inst = ManagerInst
      /\ LET r == GetService(components_, singletons_, objects, kPluginQuery,
                             IPluginQueryType, TRUE)
         IN r.err = kSuccess /\ r.inst = ManagerInst

\* UnloadAllPlugins has returned after a library service had been made and
\* subscriptions had been taken.
C16_Witness ==
    /\ last.op = "UnloadAllPlugins"
    /\ objects # << >>
    /\ unload_mark > 0
    /\ kEventBus \in DOMAIN components_

\* What both forms of C17 say of an UnloadAllPlugins step taken while no fire
\* is in flight, apart from the singleton cache: the registry holds exactly
\* the core entries, no library is recorded, and the subscription tables, the
\* reverse-lookup tables and the two queues are empty.
UnloadedState ==
    /\ components_' = Created.components
    /\ alias_map_' = Created.alias_map
    /\ default_map_' = Created.default_map
    /\ loaded_libs_' = {}
    /\ global_subscribers_' = EmptyMap /\ sender_subscribers_' = EmptyMap
    /\ global_sub_lookup_' = EmptyMap /\ sender_sub_lookup_' = EmptyMap
    /\ event_queue_' = << >> /\ gc_queue_' = << >>

\* A fire that begins takes no subscription made before the last
\* UnloadAllPlugins.
FireAfterUnload ==
    (fire_pc # "direct" /\ fire_pc' = "direct") =>
       /\ \A i \in 1..Len(direct_calls') : direct_calls'[i].id > unload_mark'
       /\ \A i \in 1..Len(queued_calls') : queued_calls'[i].id > unload_mark'

\* C17 as stated: UnloadAllPlugins with nothing else in flight leaves the
\* core entries only, an empty singleton cache, no library, empty
\* subscription and reverse-lookup tables and empty queues, and no later fire
\* invokes a subscription made before it.
C17_FreshAfterUnload ==
    [][/\ (UnloadAllPlugins /\ fire_pc # "direct" /\ worker_pc = "wait") =>
             (UnloadedState /\ singletons_' = EmptyMap)
       /\ FireAfterUnload
      ]_vars

\* C17, amended: as above, but the singleton cache holds what it holds right
\* after Create, the event-bus entry made by the GetService<IEventBus> that
\* ends UnloadAllPlugins.
C17_BootstrappedAfterUnload ==
    [][/\ (UnloadAllPlugins /\ fire_pc # "direct" /\ worker_pc = "wait") =>
             /\ UnloadedState
             /\ singletons_' = CreatedSingletons
             /\ DOMAIN singletons_' = {kEventBus}
       /\ FireAfterUnload
      ]_vars

\* UnloadAllPlugins has returned, with no fire in flight, after a library
\* service had been made and every subscription the bound allows had been
\* taken, and nothing of them is left.
C17_Witness ==
    /\ last.op = "UnloadAllPlugins"
    /\ fire_pc = "returned"
    /\ unload_mark = MaxSubs
    /\ objects # << >>
    /\ global_sub_lookup_ = EmptyMap /\ global_subscribers_ = EmptyMap
    /\ DOMAIN components_ = CoreClsids

\* The handles held that refer to an object.
HandlesOf(obj) == { i \in 1..Len(handles) : blocks[handles[i].block].obj = obj }

\* C18: all handles to an object, however they were cast or copied, share
\* one control block whose use count is the number of handles held; the
\* object's destructor has not run while a handle to it is held, never runs
\* twice, and has run once when the last handle is gone.
C18_OneCountOneDestruction ==
    \A obj \in 1..Len(destroyed) :
       /\ destroyed[obj] <= 1
       /\ HandlesOf(obj) # {} => destroyed[obj] = 0
       /\ HandlesOf(obj) = {} => destroyed[obj] = 1
       /\ \A i, j \in HandlesOf(obj) : handles[i].block = handles[j].block
       /\ \A i \in HandlesOf(obj) :
             blocks[handles[i].block].count = Cardinality(HandlesOf(obj))

\* A handle g of IComponent and a handle h of ISimple cast from it are held
\* on one control block with use count two.
C18_Witness ==
    /\ Len(handles) = 2
    /\ handles[1].iid = IComponent_kIid
    /\ handles[2].iid = ISimple_kIid
    /\ handles[1].block = handles[2].block
    /\ blocks[handles[1].block].count = 2

\* C19 as stated: while a handle to an object made by a library's factory is
\* held, that library is mapped.
C19_LibraryOutlivesHandles ==
    \A i \in 1..Len(objects) :
       objects[i].refs > 0 => map_count[LibOf(objects[i].cls)] > 0

\* C20: once a Manager is the active instance it stays the active
\* instance; a Create that reaches its check while one is active throws,
\* and that step leaves GetActiveInstance and every member of the active
\* Manager (registry, subscriptions, queues, worker) as they were; at no
\* moment have two Create calls passed the check.
C20_SingleActiveManager ==
    [][ /\ (s_ActiveInstance # NoManager => s_ActiveInstance' = s_ActiveInstance)
        /\ \A t \in Threads :
              (create_pc[t] = "made" /\ create_pc'[t] # "made" /\ s_ActiveInstance # NoManager)
                 => /\ create_pc'[t] = "threw"
                    /\ GetActiveInstance' = GetActiveInstance
                    /\ UNCHANGED << regVars, busMembers, workerVars >>
        /\ \A t1, t2 \in Threads :
              (create_pc'[t1] \in {"set", "done"} /\ create_pc'[t2] \in {"set", "done"})
                 => t1 = t2 ]_vars

\* Two Create calls raced, one threw, and the winner's Manager, in use by
\* the host, is still the active instance with its subscription in place.
C20_Witness ==
    /\ \E t \in Threads : create_pc[t] = "threw"
    /\ \E t \in Threads : create_pc[t] = "done" /\ create_mgr[t] = s_ActiveInstance
    /\ s_ActiveInstance = 1
    /\ made_count >= 2
    /\ sub_count > 0

\* C21 as stated: the step in which the host drops its last handle to the
\* Manager stops the worker, clears the registry and empties the
\* active-instance slot, so that GetActiveInstance returns nothing.
C21_LastReleaseDestroys ==
    [][ \A t \in Threads :
           ( /\ create_pc[t] = "done"
             /\ create_pc'[t] = "released"
             /\ \A u \in Threads \ {t} :
                   ~(create_pc[u] = "done" /\ create_mgr[u] = create_mgr[t]) )
              => /\ GetActiveInstance' = NoManager
                 /\ ~running_'
                 /\ components_' = EmptyMap ]_vars

\* C22 as stated: the step UnloadAllPlugins leaves the registry of plugin
\* components, the subscriptions and the queues empty, leaves
\* loaded_libs_ empty, and leaves no library mapped that loaded_libs_
\* recorded.
C22_UnloadReleasesLibraries ==
    [][ UnloadAllPlugins
          => /\ DOMAIN components_' = CoreClsids
             /\ global_subscribers_' = EmptyMap /\ sender_subscribers_' = EmptyMap
             /\ event_queue_' = << >> /\ gc_queue_' = << >>
             /\ loaded_libs_' = {}
             /\ \A p \in loaded_libs_ : map_count'[p] = 0 ]_vars

WaitsFor(t, u) ==
    /\ lock_script[t] # << >>
    /\ \/ /\ Head(lock_script[t]).kind = "lock"
          /\ lock_owner[Head(lock_script[t]).mutex] = u
          /\ (u = t => Head(lock_script[t]).mutex # event_mutex_)
       \/ /\ Head(lock_script[t]).kind = "scoped_lock"
          /\ \E m \in ManagerMutexes : lock_owner[m] = u

\* C24: outside the scoped_lock of ClearAllRegistries no thread owns more
\* than one of registry_mutex_, event_mutex_ and queue_mutex_; a thread
\* about to run a subscriber callback owns none of them; and no set of
\* threads waits for each other's locks.
C24_LockDiscipline ==
    /\ \A t \in LockThreads :
          /\ (lock_script[t] = << >> => Held(t) = {})
          /\ (lock_script[t] # << >> /\ Head(lock_script[t]).kind \notin {"platform", "scoped_unlock"})
                => Cardinality(Held(t) \cap ManagerMutexes) <= 1
          /\ (lock_script[t] # << >> /\ Head(lock_script[t]).kind = "callback")
                => Held(t) = {}
    /\ \A t \in LockThreads : ~WaitsFor(t, t)
    /\ \A t, u \in LockThreads : ~(t # u /\ WaitsFor(t, u) /\ WaitsFor(u, t))
    /\ \A t, u, v \in LockThreads :
          ~(t # u /\ u # v /\ t # v /\ WaitsFor(t, u) /\ WaitsFor(u, v) /\ WaitsFor(v, t))

\* A caller is inside the scoped_lock of ClearAllRegistries while another
\* caller waits for registry_mutex_ and the worker waits for queue_mutex_.
C24_Witness ==
    \E t, u \in Threads :
       /\ t # u
       /\ Held(t) = ManagerMutexes
       /\ WaitsFor(u, t) /\ Head(lock_script[u]).mutex = registry_mutex_
       /\ WaitsFor(event_loop_thread_, t)

\* No publisher is between its snapshot and its last callback, and the
\* worker is waiting at the top of its loop.
BusQuiescent == fire_pc # "direct" /\ worker_pc = "wait"

\* C25 as stated: while no bus operation is in flight, the subscriber of
\* every Subscription in global_subscribers_[e] has a row in
\* global_sub_lookup_ that holds e, and the subscriber of every
\* Subscription in sender_subscribers_[k][e] has a row in
\* sender_sub_lookup_ that holds (k, e).
C25_LookupCoversSubscriptions ==
    BusQuiescent =>
      /\ \A e \in DOMAIN global_subscribers_ : \A i \in 1..Len(global_subscribers_[e]) :
            LET sub == global_subscribers_[e][i].subscriber_id
            IN sub \in DOMAIN global_sub_lookup_ /\ e \in global_sub_lookup_[sub]
      /\ \A k \in DOMAIN sender_subscribers_ : \A e \in DOMAIN sender_subscribers_[k] :
            \A i \in 1..Len(sender_subscribers_[k][e]) :
               LET sub == sender_subscribers_[k][e][i].subscriber_id
               IN sub \in DOMAIN sender_sub_lookup_
                  /\ << k, e >> \in sender_sub_lookup_[sub]

\* C26 as stated: while no load is in flight, every entry of default_map_
\* maps an interface to a ClassId that is registered and implements that
\* interface.
C26_DefaultsNameComponents ==
    load_pc = "idle" =>
      \A iid \in DOMAIN default_map_ :
         /\ default_map_[iid] \in DOMAIN components_
         /\ \E n \in 1..Len(GetInterfaceDetails(default_map_[iid])) :
               GetInterfaceDetails(default_map_[iid])[n].iid = iid

\* C27: loaded_libs_ gains a path exactly in the step in which a load of
\* that path returns true, and loses its paths exactly in UnloadAllPlugins;
\* while no load is in flight every path in it is mapped and every
\* descriptor with a source path names a path in it; a descriptor gets the
\* path of the load in flight when it is registered, and the empty path
\* when none is.
C27_LoadedLibraries ==
    [][ /\ loaded_libs_' =
              IF load_pc = "init" /\ load_pc' = "idle" /\ last'.err = "ok"
              THEN loaded_libs_ \cup {path_str}
              ELSE IF UnloadAllPlugins THEN {} ELSE loaded_libs_
        /\ load_pc' = "idle" =>
              /\ \A p \in loaded_libs_' : map_count'[p] > 0
              /\ \A c \in DOMAIN components_' :
                    components_'[c].source_plugin_path # NoPath
                       => components_'[c].source_plugin_path \in loaded_libs_'
        /\ \A c \in DOMAIN components_' \ DOMAIN components_ :
              components_'[c].source_plugin_path =
                 (IF load_pc = "init" THEN path_str ELSE NoPath) ]_vars

\* C28: a per-file load of a dynamic library that has come back published
\* exactly one event for its path, the success event when it returned true
\* and the failure event when it returned false, and it came back by
\* returning, never by raising into the directory scan.
C28_OneEventPerLoad ==
    (last.op = "LoadPlugin" /\ last.err # "init") =>
        /\ last.err # "raised"
        /\ last.emitted =
              << Event(IF last.err = "ok" THEN "PluginLoadSuccessEvent"
                                          ELSE "PluginLoadFailureEvent", last.key) >>

\* The Subscriptions in the forward lists, global and sender-scoped.
ForwardSubscriptions ==
    UNION { { global_subscribers_[e][i] : i \in 1..Len(global_subscribers_[e]) } :
               e \in DOMAIN global_subscribers_ }

SenderForwardSubscriptions ==
    UNION { UNION { { sender_subscribers_[k][e][i] :
                         i \in 1..Len(sender_subscribers_[k][e]) } :
                       e \in DOMAIN sender_subscribers_[k] } :
               k \in DOMAIN sender_subscribers_ }

\* C29: once a subscriber or a sender has expired, eventually no forward
\* list holds a Subscription of that subscriber or to that sender, and an
\* expired subscriber has no row in either reverse-lookup table, the worker
\* being scheduled fairly.
C29_ExpiredEventuallyRemoved ==
    \A o \in Subscribers \cup Senders :
       (o \notin live) ~>
          /\ \A s \in ForwardSubscriptions \cup SenderForwardSubscriptions :
                s.subscriber_id # o /\ s.sender_id # o
          /\ o \in Subscribers =>
                o \notin DOMAIN global_sub_lookup_ /\ o \notin DOMAIN sender_sub_lookup_

\* The ids in gc_queue_.
InGcQueue(w) == \E i \in 1..Len(gc_queue_) : gc_queue_[i] = w

\* C30: every subscriber id pushed into gc_queue_ is eventually out of it
\* again, with its rows of both reverse-lookup tables erased, whether or not
\* anything is published afterwards.
C30_GcQueueDrained ==
    \A w \in Subscribers :
       InGcQueue(w) ~> /\ ~ InGcQueue(w)
                       /\ w \notin DOMAIN global_sub_lookup_
                       /\ w \notin DOMAIN sender_sub_lookup_

\* C31: a thread that runs a direct callback owns none of the Manager's
\* locks, so what the callback calls on the bus never waits for its own
\* caller and no threads wait for each other; and the caller's remaining
\* steps stay behind the callee's: each step of a thread takes the first
\* step off its script, or puts a whole bus operation and its return in
\* front of the rest, so the nested fire returns before the callback does
\* and the outer fire goes on with its remaining callbacks.
C31_NestedBusCalls ==
    /\ [](\A t \in LockThreads :
             /\ (lock_script[t] # << >> /\ Head(lock_script[t]).kind = "callback")
                   => Held(t) = {}
             /\ ~WaitsFor(t, t)
             /\ \A u \in LockThreads :
                   ~(t # u /\ WaitsFor(t, u) /\ WaitsFor(u, t))
             /\ \A u, v \in LockThreads :
                   ~(t # u /\ u # v /\ t # v
                       /\ WaitsFor(t, u) /\ WaitsFor(u, v) /\ WaitsFor(v, t)))
    /\ [][\A t \in LockThreads :
             (lock_script[t] # << >> /\ lock_script'[t] # lock_script[t]) =>
                \/ lock_script'[t] = Tail(lock_script[t])
                \/ /\ Head(lock_script[t]).kind = "callback"
                   /\ \E script \in CallbackOperations :
                         lock_script'[t] = script \o << Return >> \o Tail(lock_script[t])]_vars

\* The first of two direct callbacks of a fire has published an event of
\* its own, and the nested fire waits for event_mutex_, which another
\* thread owns; the second callback of the outer fire is still to run.
C31_Witness ==
    \E t, u \in Threads :
       /\ t # u
       /\ Nesting(t) = 1
       /\ lock_script[t] = FireGlobalImplLocksN(1) \o << Return, CallCallback,
                                                        Acq(queue_mutex_), Rel(queue_mutex_) >>
       /\ lock_owner[event_mutex_] = u

\* C32 as stated: a RegisterComponent call that raises leaves components_,
\* alias_map_ and default_map_ as they were, so no interface gets the
\* rejected ClassId as its default.
C32_FailedRegisterWritesNothing ==
    [][ (last'.op = "RegisterComponent" /\ last'.err # "ok"
           /\ (last' # last \/ default_map_' # default_map_)) =>
          UNCHANGED << components_, alias_map_, default_map_ >> ]_vars

\* The live objects of class c.
LiveInstances(c) == {i \in 1..Len(objects) : objects[i].cls = c /\ objects[i].refs > 0}

\* C33: when several threads call GetService for the same singleton ClassId
\* concurrently, at no time do two live instances of that ClassId exist, a
\* caller served from the cache gets the instance that is alive, and the
\* factory of a singleton is called only while no instance of it is alive.
C33_OneLiveSingleton ==
    /\ [](\A c \in FactoryClasses :
             (c \in DOMAIN components_ /\ components_[c].is_singleton) =>
                 /\ Cardinality(LiveInstances(c)) <= 1
                 /\ (c \in DOMAIN singletons_ /\ Alive(objects, singletons_[c])) =>
                        LiveInstances(c) = {singletons_[c]})
    /\ [][\A t \in Threads :
             (/\ lock_script[t] # << >>
              /\ Head(lock_script[t]).kind = "factory"
              /\ Len(objects') > Len(objects)
              /\ components_[Head(lock_script[t]).clsid].is_singleton) =>
                 LiveInstances(Head(lock_script[t]).clsid) = {}]_vars

\* One thread is inside GetService between the factory call and the cache
\* write while the other waits at the lock_guard of a GetService for the same
\* ClassId; the object is the second one made, the first has been released.
C33_Witness ==
    \E t, u \in Threads :
       /\ t # u
       /\ lock_script[t] # << >>
       /\ Head(lock_script[t]).kind = "finish"
       /\ Head(lock_script[t]).cache
       /\ Head(lock_script[t]).clsid = "LoggerService"
       /\ LiveInstances("LoggerService") = {Head(lock_script[t]).obj}
       /\ Head(lock_script[t]).obj = 2
       /\ lock_script[u] = GetServiceSteps("LoggerService", ILoggerType)
       /\ WaitsFor(u, t)

\* C34: GetService and CreateInstance return or raise also when the factory
\* they call resolves a collaborator on the same thread: no resolver call
\* waits for registry_mutex_ while its own thread owns it.
C34_ResolverNeverBlocks ==
    \A t \in Threads : ~ WaitsFor(t, t)

\* The callbacks the fire in flight has run, skipped or has yet to run.
FireDelivery ==
    { fire_log[i].callback : i \in 1..Len(fire_log) }
       \cup Range(fire_skipped) \cup Range(direct_calls)

\* C35: a fire delivers to the snapshot taken under event_mutex_ at publish
\* time: the callbacks it runs, skips or still has to run are the direct
\* callbacks of the snapshot, so a subscription added during delivery is not
\* invoked by that fire; and a Subscribe or Unsubscribe made during delivery
\* leaves both snapshots as they are.
C35_FireDeliversSnapshot ==
    /\ [](fire_pc = "direct" =>
             FireDelivery = Range(SelectCalls(fire_published, kDirect)))
    /\ [](fire_pc = "threw" =>
             FireDelivery \subseteq Range(SelectCalls(fire_published, kDirect)))
    /\ [][(/\ fire_pc = "direct"
           /\ << global_subscribers_, sender_subscribers_ >>
                 # << global_subscribers_', sender_subscribers_' >>) =>
              UNCHANGED << direct_calls, queued_calls, fire_published >>]_vars

\* A fire has run the callback of a subscriber that unsubscribed after the
\* snapshot was taken, and has finished its direct deliveries without running
\* the callback of a subscription made in the meantime for the same event.
C35_Witness ==
    /\ fire_pc = "direct"
    /\ direct_calls = << >>
    /\ Len(fire_log) = 1
    /\ fire_log[1].callback.weak_sub \in unsubscribed
    /\ fire_log[1].callback \notin ListedDirectCalls
    /\ \E cb \in ListedDirectCalls :
          /\ cb \in Range(SelectCalls(global_subscribers_[EventCatalog[1]], kDirect))
          /\ cb.id > fire_log[1].callback.id
          /\ ~ Expired(live, cb.weak_sub)

\* C36: Unsubscribe does not cancel deliveries already captured: when the
\* worker comes to a callback of the task it dequeued, the callback is invoked
\* if its subscriber is alive, also when the subscriber has unsubscribed since
\* the fire that enqueued the task.
C36_UnsubscribeKeepsCaptured ==
    [][(/\ worker_pc = "run"
        /\ task_to_run # << >>
        /\ task_to_run' # task_to_run
        /\ Head(task_to_run).weak_sub \in live) =>
           /\ Len(worker_log') = Len(worker_log) + 1
           /\ worker_log'[Len(worker_log')].callback = Head(task_to_run)]_vars

\* The worker has run the first callback of a task and comes to the second,
\* whose subscriber is alive, has unsubscribed and is in no forward list.
C36_Witness ==
    /\ worker_pc = "run"
    /\ Len(task_to_run) = 1
    /\ Len(worker_task.queued_calls) = 2
    /\ worker_log # << >>
    /\ worker_log[Len(worker_log)].callback = worker_task.queued_calls[1]
    /\ Head(task_to_run).weak_sub \in unsubscribed \cap live
    /\ \A e \in DOMAIN global_subscribers_ :
          Head(task_to_run) \notin Range(SelectCallsAny(global_subscribers_[e], kQueued))

\* C37 as stated: a GC step of the worker erases reverse-lookup rows only of
\* a subscriber that has expired and holds no Subscription in any forward
\* list.
C37_GcErasesOnlyOrphanRows ==
    [][(worker_pc = "gc" /\ worker_pc' = "wait") =>
          \A sub \in (DOMAIN global_sub_lookup_ \ DOMAIN global_sub_lookup_')
                       \cup (DOMAIN sender_sub_lookup_ \ DOMAIN sender_sub_lookup_') :
             Expired(live, sub) /\ ~ HoldsSubscription(sub)]_vars

\* C38 as stated: when a queued callback raises, the callbacks that follow it
\* in the same task are still to be run by the worker: the raise takes only
\* the callback that raised out of the task.
C38_RaiseLeavesOthers ==
    [][(/\ worker_pc = "run"
        /\ task_to_run # << >>
        /\ Len(worker_log') = Len(worker_log) + 1
        /\ worker_log'[Len(worker_log')].raised) =>
           task_to_run' = Tail(task_to_run)]_vars

\* C39 as stated: with a register call of another thread running beside a
\* load, every descriptor records the path of the library whose init
\* registered it (none for the host's own component), and a failed load
\* removes every component its init registered and none the other thread
\* registered.
C39_LoadCoversOwnRegistrations ==
    /\ [](\A c \in DOMAIN components_ \ CoreClsids :
             components_[c].source_plugin_path =
                IF c = HostClsid THEN NoPath ELSE LibOf(c))
    /\ [][(load_pc = "threw" /\ load_pc' = "idle") =>
             /\ (HostClsid \in DOMAIN components_ => HostClsid \in DOMAIN components_')
             /\ \A c \in LibClasses(path_str) : c \notin DOMAIN components_']_vars

\* The worker has left EventLoop, by return or by std::terminate.
WorkerGone == worker_pc \in {"exited", "terminated", "joined"}

\* C40 as stated: once running_ is false the worker leaves EventLoop only
\* when event_queue_ is empty, the join returns, with every task enqueued
\* before the teardown taken by the worker before it; UnloadAllPlugins, by
\* contrast, empties event_queue_.
C40_TeardownDrainsQueue ==
    /\ [][(~ running_ /\ ~ WorkerGone /\ WorkerGone') => event_queue_ = << >>]_vars
    /\ [][(worker_pc # "joined" /\ worker_pc' = "joined") => event_queue_ = << >>]_vars
    /\ (~ running_) ~> (worker_pc = "joined")
    /\ [][unload_mark' # unload_mark => event_queue_' = << >>]_vars

=============================================================================
